---- MODULE Spec2Model ----
(***************************************************************************)
(* Best-prop selection and statistical scoring of the baseball props site. *)
(*                                                                         *)
(* Spec           : the request handlers that select best props from the   *)
(*                  props history file and from the projection files.      *)
(* SpecScore      : the z-score and probability functions.                 *)
(* SpecSchema     : the handlers over files that lack a column.            *)
(* SpecMerge      : the split of the batters by location, the projection.  *)
(* SpecNames      : the name helpers of the handlers.                      *)
(* SpecRoster     : the roster builder and the deduplicator.               *)
(* SpecProjection : the /api/game-projection handler.                      *)
(* SpecGameCard   : the effects of the GameCard component.                 *)
(* SpecTopProps   : the TopPropsCard component under App.                  *)
(* SpecGameCards  : the filterable GameCards page.                         *)
(* SpecRefresh    : the refresh page and the /api/refresh handler.         *)
(* SpecServer     : the server process and the files its handlers write.   *)
(* SpecPipeline   : a run of the pipeline's stages.                        *)
(***************************************************************************)
EXTENDS Integers, Sequences, FiniteSets, TLC

VARIABLES
    hist,        \* data/bets/player_props_history.csv: [exists, headers, rows]
    batters,     \* data/_projections/batter_props_projected.csv: rows
    historyJson, \* data/history/<date>.json as last written by /api/game-cards
    resp,        \* the response of the last request: [handler, query, status, body]
    call,        \* SpecScore: the last scoring call: [fn, args, result]
    run,         \* the pipeline run: the artifacts on disk and the stages executed
    view         \* the state of the page component on screen

vars == <<hist, batters, historyJson, resp, call, run, view>>

NoRun == [kind |-> "none"]
NoView == [kind |-> "none"]

(***************************************************************************)
(* Bounds of the model.                                                    *)
(***************************************************************************)
MaxRows == 4        \* data rows of the props history file
MaxBatters == 3     \* rows of the batter projections file
MaxVal == 1         \* largest projected value of a batter row
MaxCohort == 3      \* players of a cohort given to zScore
MaxScore == 2       \* largest value of a cohort, and of zscore's arguments
MaxZ == 400         \* largest |z| given to a conversion, in hundredths
MaxStep == 2        \* largest step between two successive conversions
MaxToday == 2       \* rows of batters_today.csv
MaxGames == 2       \* rows of todaysgames_normalized.csv
MaxNameWords == 2   \* words of a first name, and of a last name
MaxTable == 3       \* rows of a tagged table given to the deduplicator
MaxFiles == 2       \* team files given to the roster builder
MaxProjRows == 1    \* data rows of game_props_history.csv
MaxRequests == 6    \* requests a page component issues
MaxClients == 3     \* requests sent to the server process
MaxClicks == 2      \* presses of Regenerate Props, and requests sent past the page
MaxCards == 2       \* cards of game_cards_data.json
MaxBest == 2        \* entries of a bestProps list other than App's, and rows of the fetched file

(***************************************************************************)
(* Sequence helpers.                                                       *)
(***************************************************************************)
Min(a, b) == IF a <= b THEN a ELSE b

Take(s, n) == SubSeq(s, 1, Min(n, Len(s)))

Range(s) == {s[i] : i \in 1..Len(s)}

\* All sequences over S of length 0..n.
SeqsUpTo(S, n) == UNION {[1..k -> S] : k \in 0..n}

(***************************************************************************)
(* Name strings.  A name is the list of its whitespace-separated tokens,   *)
(* split at its first comma when it has one: "Judge, Aaron" is             *)
(* [pre |-> <<"Judge">>, post |-> <<"Aaron">>, comma |-> TRUE] and          *)
(* "Aaron Judge" is [pre |-> <<"Aaron", "Judge">>, post |-> <<>>,           *)
(* comma |-> FALSE].  The empty string has no token and no comma.          *)
(***************************************************************************)
Str(pre, post, comma) == [pre |-> pre, post |-> post, comma |-> comma]

EmptyStr == Str(<<>>, <<>>, FALSE)

LastFirst(last, first) == Str(<<last>>, <<first>>, TRUE)

FirstLast(first, last) == Str(<<first, last>>, <<>>, FALSE)

\* String.prototype.toLowerCase on the tokens the model uses.
LowerTok(t) ==
    CASE t = "Judge" -> "judge"
      [] t = "Aaron" -> "aaron"
      [] t = "Torres" -> "torres"
      [] t = "Gleyber" -> "gleyber"
      [] t = "Ohtani" -> "ohtani"
      [] t = "Shohei" -> "shohei"
      [] t = "Elly" -> "elly"
      [] t = "De" -> "de"
      [] t = "Cruz" -> "cruz"
      [] OTHER -> t

LowerToks(ts) == [i \in 1..Len(ts) |-> LowerTok(ts[i])]

\* toLastFirstLowerFirstAsLast: the 'First Last' branch taking the first
\* token as the last name.
toLastFirstLowerFirstAsLast(s) ==
    IF s = EmptyStr THEN EmptyStr
    ELSE IF s.comma
         THEN LET first == IF s.post = <<>> THEN <<>> ELSE <<LowerTok(Head(s.post))>>
              IN  Str(LowerToks(s.pre), first, TRUE)
         ELSE IF Len(s.pre) >= 2
              THEN Str(<<LowerTok(s.pre[1])>>, <<LowerTok(s.pre[Len(s.pre)])>>, TRUE)
              ELSE Str(LowerToks(s.pre), <<>>, FALSE)

\* toLastFirstLowerSwapped: the 'Last, First' branch writing the first name
\* before the comma.
toLastFirstLowerSwapped(s) ==
    IF s = EmptyStr THEN EmptyStr
    ELSE IF s.comma
         THEN LET first == IF s.post = <<>> THEN <<>> ELSE <<LowerTok(Head(s.post))>>
              IN  Str(first, LowerToks(s.pre), TRUE)
         ELSE IF Len(s.pre) >= 2
              THEN Str(<<LowerTok(s.pre[Len(s.pre)])>>, <<LowerTok(s.pre[1])>>, TRUE)
              ELSE Str(LowerToks(s.pre), <<>>, FALSE)

\* toLastFirstLower of best-props.js.
toLastFirstLower(s) ==
    IF s = EmptyStr THEN EmptyStr
    ELSE IF s.comma
         THEN LET first == IF s.post = <<>> THEN <<>> ELSE <<LowerTok(Head(s.post))>>
              IN  Str(LowerToks(s.pre), first, TRUE)
         ELSE IF Len(s.pre) >= 2
              THEN Str(<<LowerTok(s.pre[Len(s.pre)])>>, <<LowerTok(s.pre[1])>>, TRUE)
              ELSE Str(LowerToks(s.pre), <<>>, FALSE)

\* toFirstLast of game-top-props.js.
toFirstLast(s) ==
    IF s = EmptyStr THEN EmptyStr
    ELSE IF ~s.comma THEN s
         ELSE LET first == IF s.post = <<>> THEN <<>> ELSE <<Head(s.post)>>
              IN  Str(first \o s.pre, <<>>, FALSE)

(***************************************************************************)
(* The props history file.  Its rows are drawn from a pool of projected    *)
(* props with distinct probabilities; Judge has two qualifying stat types. *)
(***************************************************************************)
Prop(name, team, type, line, p) ==
    [player_name |-> name, team |-> team, prop_type |-> type,
     prop_line |-> line, probability |-> p]

PropPool ==
    { Prop(LastFirst("Judge", "Aaron"), "Yankees", "hits", "1.5", 92),
      Prop(LastFirst("Judge", "Aaron"), "Yankees", "total_bases", "2.5", 88),
      Prop(LastFirst("Ohtani", "Shohei"), "Dodgers", "total_bases", "2.5", 85),
      Prop(LastFirst("Torres", "Gleyber"), "Yankees", "home_runs", "0.5", 60) }

HistRow(p, bet) ==
    [player_name |-> p.player_name, team |-> p.team, prop_type |-> p.prop_type,
     prop_line |-> p.prop_line, probability |-> p.probability, bet_type |-> bet]

\* The props that the history file also lists under another bet type.
OtherPool == {p \in PropPool : p.prop_type = "total_bases"}

\* Rows of a file that has the bet_type column, and of one that lacks it.
RowsWithBet ==
    {HistRow(p, "Best Prop") : p \in PropPool}
    \cup {HistRow(p, "Individual Game") : p \in OtherPool}

RowsWithoutBet == {HistRow(p, "") : p \in PropPool}

FullHeaders ==
    {"player_name", "team", "prop_type", "prop_line", "probability", "bet_type"}

HistFile(exists, headers, rows) ==
    [exists |-> exists, headers |-> headers, rows |-> rows]

MissingFile == HistFile(FALSE, {}, <<>>)

EmptyFile == HistFile(TRUE, {}, <<>>)

HistFiles ==
    {MissingFile, EmptyFile}
    \cup {HistFile(TRUE, FullHeaders, rows) : rows \in SeqsUpTo(RowsWithBet, MaxRows)}
    \cup {HistFile(TRUE, FullHeaders \ {"bet_type"}, rows) :
            rows \in SeqsUpTo(RowsWithoutBet, MaxRows)}

\* parseCSV of best-props.js and game-top-props.js: a missing file and a file
\* with no line both parse to no header and no row.
parseCSV(file) ==
    IF ~file.exists THEN [headers |-> {}, rows |-> <<>>]
    ELSE [headers |-> file.headers, rows |-> file.rows]

\* The cell of row r in the first column of the header among names, or the
\* empty string when the header has none of them (index -1).
NameCell(csv, r) ==
    IF "player_name" \in csv.headers THEN r.player_name ELSE EmptyStr

Cell(csv, r, col) == IF col \in csv.headers THEN r[col] ELSE ""

(***************************************************************************)
(* Responses.                                                              *)
(***************************************************************************)
NoQuery == [home |-> "", away |-> ""]

Response(handler, query, status, body) ==
    [handler |-> handler, query |-> query, status |-> status, body |-> body]

NoResponse == Response("none", NoQuery, 0, <<>>)

Call(fn, args, done, result) ==
    [fn |-> fn, args |-> args, done |-> done, result |-> result]

NoCall == Call("none", <<>>, TRUE, <<>>)

(***************************************************************************)
(* /api/best-props (pages/api/best-props.js).                              *)
(***************************************************************************)
BestPropsN == 3

\* Name -> id map built from batter_props_z_expanded.csv (a fixed file here).
BatterIds ==
    << [name |-> FirstLast("Aaron", "Judge"), player_id |-> "592450"],
       [name |-> LastFirst("Ohtani", "Shohei"), player_id |-> "660271"] >>

\* nameToId.get(key) || '' for the map built from the rows of bat (lines
\* 46-53): a later row of the same key replaces an earlier one.
nameToIdIn(bat, key) ==
    LET hits == {i \in 1..Len(bat) :
                    /\ toLastFirstLower(bat[i].name) = key
                    /\ key # EmptyStr /\ bat[i].player_id # ""}
    IN  IF hits = {} THEN ""
        ELSE bat[CHOOSE i \in hits : \A j \in hits : j <= i].player_id

nameToId(key) == nameToIdIn(BatterIds, key)

BestPropsEntry(csv, r) ==
    LET rawName == NameCell(csv, r)
    IN  [playerId |-> nameToId(toLastFirstLower(rawName)),
         player_name |-> rawName,
         team |-> Cell(csv, r, "team"),
         prop_type |-> Cell(csv, r, "prop_type"),
         prop_line |-> Cell(csv, r, "prop_line")]

\* BestPropsLoopNoBreak: the loop without its break, keeping every 'best
\* prop' row.
BestPropsLoopNoBreak(csv, rows, out) ==
    LET best == SelectSeq(rows, LAMBDA r : r.bet_type = "Best Prop")
    IN  out \o [i \in 1..Len(best) |-> BestPropsEntry(csv, best[i])]

\* The loop of lines 64-82: rows in file order, keeping the 'best prop' rows
\* and stopping once the list holds BestPropsN entries.
RECURSIVE BestPropsLoop(_, _, _)
BestPropsLoop(csv, rows, out) ==
    IF rows = <<>> THEN out
    ELSE IF Head(rows).bet_type # "Best Prop"
         THEN BestPropsLoop(csv, Tail(rows), out)
         ELSE LET out2 == Append(out, BestPropsEntry(csv, Head(rows)))
              IN  IF Len(out2) >= BestPropsN THEN out2
                  ELSE BestPropsLoop(csv, Tail(rows), out2)

\* BestPropsResponseStrict: the handler answering 500 when it selected
\* nothing.
BestPropsResponseStrict(file) ==
    LET csv == parseCSV(file)
        out == IF "bet_type" \in csv.headers
               THEN BestPropsLoop(csv, csv.rows, <<>>) ELSE <<>>
    IN  IF out = <<>> THEN Response("best-props", NoQuery, 500, <<>>)
        ELSE Response("best-props", NoQuery, 200, out)

BestPropsResponse(file) ==
    LET csv == parseCSV(file)
    IN  IF csv.rows = <<>> THEN Response("best-props", NoQuery, 200, <<>>)
        ELSE IF "bet_type" \notin csv.headers
             THEN Response("best-props", NoQuery, 500, <<>>)
             ELSE Response("best-props", NoQuery, 200,
                           BestPropsLoop(csv, csv.rows, <<>>))

BestProps ==
    /\ resp' = BestPropsResponse(hist)
    /\ UNCHANGED <<hist, batters, historyJson>>
    /\ UNCHANGED <<call, run, view>>

(***************************************************************************)
(* The older /api/best-props handler (unnamed/part_011).                   *)
(***************************************************************************)
Part011N == 3

\* [propType, propLine].filter(Boolean).join(' '), as the list of its parts.
JoinNonEmpty(parts) == SelectSeq(parts, LAMBDA x : x # "")

Part011Entry(headers, r) ==
    [playerId |-> "",
     name |-> IF "player_name" \in headers THEN r.player_name ELSE EmptyStr,
     team |-> IF "team" \in headers THEN r.team ELSE "",
     line |-> JoinNonEmpty(<<IF "prop_type" \in headers THEN r.prop_type ELSE "",
                             IF "prop_line" \in headers THEN r.prop_line ELSE "">>)]

\* A row's bet_type cell is undefined when the header has no such column,
\* and (betType || '') is then the empty string.
RECURSIVE Part011Loop(_, _, _)
Part011Loop(headers, rows, out) ==
    IF rows = <<>> THEN out
    ELSE LET betType == IF "bet_type" \in headers THEN Head(rows).bet_type ELSE ""
         IN  IF betType # "Best Prop"
             THEN Part011Loop(headers, Tail(rows), out)
             ELSE LET out2 == Append(out, Part011Entry(headers, Head(rows)))
                  IN  IF Len(out2) >= Part011N THEN out2
                      ELSE Part011Loop(headers, Tail(rows), out2)

\* readFileSync throws on a missing file, which the catch turns into a 500.
Part011Response(file) ==
    IF ~file.exists THEN Response("part_011", NoQuery, 500, <<>>)
    ELSE Response("part_011", NoQuery, 200, Part011Loop(file.headers, file.rows, <<>>))

Part011BestProps ==
    /\ resp' = Part011Response(hist)
    /\ UNCHANGED <<hist, batters, historyJson>>
    /\ UNCHANGED <<call, run, view>>

(***************************************************************************)
(* /api/game-top-props (pages/api/game-top-props.js, lines 1-92).          *)
(***************************************************************************)
GameTopPropsN == 3

\* toLowerCase on the team names the model uses.
LowerTeam(t) ==
    CASE t = "Yankees" -> "yankees"
      [] t = "Dodgers" -> "dodgers"
      [] t = "Giants" -> "giants"
      [] OTHER -> t

\* prettify: underscores to spaces, every word capitalised.
prettify(t) ==
    CASE t = "hits" -> "Hits"
      [] t = "total_bases" -> "Total Bases"
      [] t = "home_runs" -> "Home Runs"
      [] OTHER -> t

\* The requests the model sends: two games, and one with ?home= missing.
Queries ==
    { [home |-> "Dodgers", away |-> "Yankees"],
      [home |-> "Giants", away |-> "Dodgers"],
      [home |-> "", away |-> "Yankees"] }

\* `${prettify(type)} Over ${line}` or prettify(type), as its parts.
GameTopPropsEntry(csv, r) ==
    LET type == Cell(csv, r, "prop_type")
        line == Cell(csv, r, "prop_line")
    IN  [playerId |-> "",
         name |-> toFirstLast(NameCell(csv, r)),
         team |-> r.team,
         line |-> IF line # "" THEN <<prettify(type), "Over", line>>
                  ELSE <<prettify(type)>>]

\* k = m.name || m.team + m.line
DedupeKey(m) == IF m.name # EmptyStr THEN <<m.name>> ELSE <<m.team, m.line>>

RECURSIVE GameTopPropsLoop(_, _, _)
GameTopPropsLoop(mapped, out, seen) ==
    IF mapped = <<>> THEN out
    ELSE LET m == Head(mapped)
             k == DedupeKey(m)
             out2 == IF k \in seen THEN out ELSE Append(out, m)
         IN  IF Len(out2) = GameTopPropsN THEN out2
             ELSE GameTopPropsLoop(Tail(mapped), out2, seen \cup {k})

GameTopPropsFiltered(csv, q) ==
    SelectSeq(csv.rows, LAMBDA r : LowerTeam(r.team) = LowerTeam(q.home)
                                   \/ LowerTeam(r.team) = LowerTeam(q.away))

GameTopPropsResponse(file, q) ==
    LET csv == parseCSV(file)
    IN  IF q.home = "" \/ q.away = "" THEN Response("game-top-props", q, 400, <<>>)
        ELSE IF csv.rows = <<>> THEN Response("game-top-props", q, 200, <<>>)
        ELSE IF "player_name" \notin csv.headers \/ "team" \notin csv.headers
             THEN Response("game-top-props", q, 500, <<>>)
        ELSE LET filtered == GameTopPropsFiltered(csv, q)
                 mapped == [i \in 1..Len(filtered) |-> GameTopPropsEntry(csv, filtered[i])]
             IN  Response("game-top-props", q, 200, GameTopPropsLoop(mapped, <<>>, {}))

GameTopProps ==
    /\ \E q \in Queries : resp' = GameTopPropsResponse(hist, q)
    /\ UNCHANGED <<hist, batters, historyJson>>
    /\ UNCHANGED <<call, run, view>>

(***************************************************************************)
(* Numbers and z-scores.  A parsed number is an integer or NaN.  A z-score *)
(* is kept exactly: it is NaN, or sgn * sqrt(num / den) with den > 0.      *)
(***************************************************************************)
Num(v) == [nan |-> FALSE, v |-> v]

NaN == [nan |-> TRUE, v |-> 0]

Z(sgn, num, den) == [nan |-> FALSE, sgn |-> sgn, num |-> num, den |-> den]

ZNaN == [nan |-> TRUE, sgn |-> 0, num |-> 0, den |-> 1]

ZZero == Z(0, 0, 1)

Sign(d) == IF d > 0 THEN 1 ELSE IF d < 0 THEN 0 - 1 ELSE 0

\* a < b and a <= b on z-scores that are numbers (compared by signed square).
ZLess(a, b) == a.sgn * a.num * b.den < b.sgn * b.num * a.den

ZLeq(a, b) == a.sgn * a.num * b.den <= b.sgn * b.num * a.den

ZEq(a, b) == ZLeq(a, b) /\ ZLeq(b, a)

RECURSIVE SumSeq(_)
SumSeq(s) == IF s = <<>> THEN 0 ELSE Head(s) + SumSeq(Tail(s))

\* zScoreFlipped: zScore with the deviation taken as mean - x.
zScoreFlipped(series) ==
    LET valid == SelectSeq(series, LAMBDA x : ~x.nan)
        n == Len(valid)
        S == SumSeq([i \in 1..n |-> valid[i].v])
        D(x) == S - n * x.v
        Q == SumSeq([i \in 1..n |-> D(valid[i]) * D(valid[i])])
    IN  [i \in 1..Len(series) |->
            IF n = 0 \/ Q = 0 THEN ZZero
            ELSE IF series[i].nan THEN ZNaN
            ELSE Z(Sign(D(series[i])), n * D(series[i]) * D(series[i]), Q)]

\* zScore of game-cards.js (lines 6-11).  With n valid values of sum S,
\* x - mean = (n*x - S) / n and std^2 = Q / n^3 for Q the sum of the
\* (n*x - S)^2, so that z^2 = n * (n*x - S)^2 / Q.  No valid value makes mean
\* and std NaN, and a NaN or zero std makes every z-score 0.
zScore(series) ==
    LET valid == SelectSeq(series, LAMBDA x : ~x.nan)
        n == Len(valid)
        S == SumSeq([i \in 1..n |-> valid[i].v])
        D(x) == n * x.v - S
        Q == SumSeq([i \in 1..n |-> D(valid[i]) * D(valid[i])])
    IN  [i \in 1..Len(series) |->
            IF n = 0 \/ Q = 0 THEN ZZero
            ELSE IF series[i].nan THEN ZNaN
            ELSE Z(Sign(D(series[i])), n * D(series[i]) * D(series[i]), Q)]

\* The largest r in lo..hi with r * r <= n.
RECURSIVE ISqrtIn(_, _, _)
ISqrtIn(n, lo, hi) ==
    IF lo >= hi THEN lo
    ELSE LET mid == (lo + hi + 1) \div 2
         IN  IF mid * mid <= n THEN ISqrtIn(n, mid, hi) ELSE ISqrtIn(n, lo, mid - 1)

\* +z.toFixed(2), in hundredths: the integer nearest to 100 * |z|, signed.
toFixed2(z) ==
    LET f == ISqrtIn((10000 * z.num) \div z.den, 0, 100 * (z.num \div z.den + 1))
        r == IF 40000 * z.num < (2 * f + 1) * (2 * f + 1) * z.den THEN f ELSE f + 1
    IN  z.sgn * r

(***************************************************************************)
(* Real arithmetic, in fixed point: a real x is the integer nearest to     *)
(* x * Scale.  Every product and quotient below stays under 2^31.          *)
(***************************************************************************)
Scale == 1000 * 1000

Abs(x) == IF x < 0 THEN 0 - x ELSE x

\* a * t for a real a and a real t >= 0: floor(a * t / Scale), computed on
\* the halves a = ah * 1000 + al and t = th * 1000 + tl.
MulS(a, t) ==
    LET ah == a \div 1000
        al == a % 1000
        th == t \div 1000
        tl == t % 1000
    IN  ah * th + (ah * tl + al * th + (al * tl) \div 1000) \div 1000

RECURSIVE Scale10(_)
Scale10(k) == IF k = 0 THEN 1 ELSE 10 * Scale10(k - 1)

\* The first k decimal digits of r / b for 0 <= r < b.
RECURSIVE DivDigits(_, _, _)
DivDigits(r, b, k) ==
    IF k = 0 THEN 0
    ELSE LET d == (10 * r) \div b
         IN  d * Scale10(k - 1) + DivDigits((10 * r) % b, b, k - 1)

\* a / b for reals a >= 0 and b > 0.
DivS(a, b) == (a \div b) * Scale + DivDigits(a % b, b, 6)

\* The terms f^k / k! of the series of e^(-f), from term k on, signs
\* alternating, for 0 <= f < 1.
RECURSIVE ExpSeries(_, _, _)
ExpSeries(f, term, k) ==
    IF term = 0 THEN 0
    ELSE term - ExpSeries(f, MulS(term, f) \div k, k + 1)

RECURSIVE ExpInt(_, _)
ExpInt(e, n) == IF n = 0 THEN e ELSE ExpInt(MulS(e, 367879), n - 1)

\* Math.exp(-u) for u >= 0: e^(-1) to the integer part of u, times the
\* series of e^(-f) for its fractional part f.
ExpNeg(u) == ExpInt(ExpSeries(u % Scale, Scale, 1), u \div Scale)

\* Math.exp(u).
Exp(u) == IF u <= 0 THEN ExpNeg(0 - u) ELSE DivS(Scale, ExpNeg(u))

\* Math.tanh(u): odd, and (1 - e^(-2|u|)) / (1 + e^(-2|u|)) for |u|.
Tanh(u) ==
    LET e == ExpNeg(2 * Abs(u))
    IN  Sign(u) * DivS(Scale - e, Scale + e)

\* Math.round of a real: the integer floor(x + 0.5).
Round(x) == (x + Scale \div 2) \div Scale

(***************************************************************************)
(* The z-score to probability conversions of the game cards.  A z-score is *)
(* given in hundredths, as the cards receive it (z.toFixed(2)).            *)
(***************************************************************************)
\* z / Math.sqrt(2)
OverSqrt2(zc) == Sign(zc) * ((Abs(zc) * 707107) \div 100)

\* ErfUnsigned: erf without the sign of its argument restored.
ErfUnsigned(x0) ==
    LET x == Abs(x0)
        t == DivS(Scale, Scale + MulS(327591, x))
        poly == MulS(MulS(MulS(MulS(MulS(1061405, t) - 1453152, t) + 1421414, t)
                          - 284497, t) + 254830, t)
    IN  Scale - MulS(poly, ExpNeg(MulS(x, x)))

\* erf of zScoreToProbability (unnamed/part_002, lines 69-75).
Erf(x0) ==
    LET sign == IF x0 >= 0 THEN 1 ELSE 0 - 1
        x == Abs(x0)
        t == DivS(Scale, Scale + MulS(327591, x))
        poly == MulS(MulS(MulS(MulS(MulS(1061405, t) - 1453152, t) + 1421414, t)
                          - 284497, t) + 254830, t)
        y == Scale - MulS(poly, ExpNeg(MulS(x, x)))
    IN  sign * y

\* zScoreToProbabilityNoOffset: the conversion without the 1 + of
\* 0.5 * (1 + erf).
zScoreToProbabilityNoOffset(zc) == Round(50 * Erf(OverSqrt2(zc)))

\* zScoreToProbability (unnamed/part_002, lines 68-77)
zScoreToProbability(zc) == Round(50 * (Scale + Erf(OverSqrt2(zc))))

\* zScoreToPercentage (unnamed/part_003, lines 87-90)
zScoreToPercentage(zc) ==
    LET p == DivS(100 * Scale, Scale + Exp(0 - zc * 10000))
        r == Round(p)
    IN  Min(99, IF r >= 1 THEN r ELSE 1)

\* zToPercent (unnamed/part_005, lines 139-142)
zToPercent(zc) == Round(50 * (Scale + Tanh(OverSqrt2(zc))))

(***************************************************************************)
(* /api/game-cards (pages/api/game-cards.js, lines 1-101).                 *)
(***************************************************************************)
GameCardsN == 5

\* weather_adjustments.csv and pitcher_props_projected.csv are fixed here.
Weather ==
    << [away_team |-> "Yankees", home_team |-> "Dodgers", temperature |-> 75],
       [away_team |-> "Red Sox", home_team |-> "Giants", temperature |-> 68] >>

Pitchers ==
    << [name |-> "Gerrit Cole", team |-> "Yankees", era |-> 3],
       [name |-> "Tyler Glasnow", team |-> "Dodgers", era |-> 2],
       [name |-> "Logan Webb", team |-> "Giants", era |-> 4] >>

\* The batters file lists the first players of this roster, one row each.
Roster ==
    << [name |-> "Aaron Judge", team |-> "Yankees"],
       [name |-> "Shohei Ohtani", team |-> "Dodgers"],
       [name |-> "Mike Trout", team |-> "Angels"],
       [name |-> "Rafael Devers", team |-> "Red Sox"],
       [name |-> "Gleyber Torres", team |-> "Yankees"] >>

BatterRow(i, hit, hr) ==
    [name |-> Roster[i].name, team |-> Roster[i].team,
     total_hits_projection |-> hit, avg_hr |-> hr]

BatterFiles ==
    UNION { { [i \in 1..n |-> BatterRow(i, f[i][1], f[i][2])] :
                f \in [1..n -> (0..MaxVal) \X (0..MaxVal)] } :
            n \in 0..Min(MaxBatters, Len(Roster)) }

\* A team name as the list of its words; the empty name has none.
Words(team) ==
    CASE team = "" -> <<>>
      [] team = "Red Sox" -> <<"Red", "Sox">>
      [] team = "White Sox" -> <<"White", "Sox">>
      [] OTHER -> <<team>>

\* String.prototype.includes, on lists of words: t occurs in k as a run of
\* consecutive words.  The empty string is included in every string.
Includes(k, t) ==
    \E i \in 0..(Len(k) - Len(t)) : SubSeq(k, i + 1, i + Len(t)) = t

\* `${w.away_team} @ ${w.home_team}`.includes(team)
KeyIncludes(w, team) ==
    Includes(Words(w.away_team) \o <<"@">> \o Words(w.home_team), Words(team))

GameKey(w) == [away |-> w.away_team, home |-> w.home_team]

\* Object.keys(weatherMap).find(key => key.includes(team)): the index of the
\* first game whose key includes the team, 0 when there is none.
FindGame(team) ==
    LET hits == {i \in 1..Len(Weather) : KeyIncludes(Weather[i], team)}
    IN  IF hits = {} THEN 0 ELSE CHOOSE i \in hits : \A j \in hits : i <= j

\* Stable insertion of p into a list sorted by descending z: the comparator
\* b.z - a.z leaves p after every entry whose z is not smaller.
RECURSIVE InsertByZ(_, _)
InsertByZ(sorted, p) ==
    IF sorted = <<>> THEN <<p>>
    ELSE IF ZLess(Head(sorted).z, p.z) THEN <<p>> \o sorted
         ELSE <<Head(sorted)>> \o InsertByZ(Tail(sorted), p)

RECURSIVE SortByZDesc(_, _)
SortByZDesc(props, sorted) ==
    IF props = <<>> THEN sorted
    ELSE SortByZDesc(Tail(props), InsertByZ(sorted, Head(props)))

\* The keys of `grouped`, in the order their first prop was pushed.
RECURSIVE GroupOrder(_, _)
GroupOrder(props, keys) ==
    IF props = <<>> THEN keys
    ELSE IF \E i \in 1..Len(keys) : keys[i] = Head(props).game
         THEN GroupOrder(Tail(props), keys)
         ELSE GroupOrder(Tail(props), Append(keys, Head(props).game))

GameCardsProps(rows) ==
    LET batterGames == SelectSeq(rows, LAMBDA b : FindGame(b.team) # 0)
        pitcherGames == SelectSeq(Pitchers, LAMBDA p : FindGame(p.team) # 0)
        zHit == zScore([i \in 1..Len(batterGames) |->
                            Num(batterGames[i].total_hits_projection)])
        zHr == zScore([i \in 1..Len(batterGames) |-> Num(batterGames[i].avg_hr)])
        zEra == zScore([i \in 1..Len(pitcherGames) |-> Num(0 - pitcherGames[i].era)])
        nb == Len(batterGames)
        batterProps ==
            [k \in 1..(2 * nb) |->
                LET i == (k + 1) \div 2
                IN  IF k % 2 = 1
                    THEN [name |-> batterGames[i].name, stat |-> "hit", z |-> zHit[i],
                          game |-> FindGame(batterGames[i].team)]
                    ELSE [name |-> batterGames[i].name, stat |-> "hr", z |-> zHr[i],
                          game |-> FindGame(batterGames[i].team)]]
        pitcherProps ==
            [i \in 1..Len(pitcherGames) |->
                [name |-> pitcherGames[i].name, stat |-> "era", z |-> zEra[i],
                 game |-> FindGame(pitcherGames[i].team)]]
    IN  batterProps \o pitcherProps

GameCardsTopProps(props) ==
    LET sorted == Take(SortByZDesc(props, <<>>), GameCardsN)
    IN  [i \in 1..Len(sorted) |->
            [player |-> sorted[i].name, stat |-> sorted[i].stat,
             z_score |-> toFixed2(sorted[i].z)]]

GameCardsFinal(rows) ==
    LET props == GameCardsProps(rows)
        games == GroupOrder(props, <<>>)
    IN  [g \in 1..Len(games) |->
            [game |-> GameKey(Weather[games[g]]),
             temperature |-> Weather[games[g]].temperature,
             top_props |-> GameCardsTopProps(
                               SelectSeq(props, LAMBDA p : p.game = games[g]))]]

\* The handler saves the cards to the day's history file, then answers.
GameCards ==
    /\ LET final == GameCardsFinal(batters)
       IN  /\ historyJson' = final
           /\ resp' = Response("game-cards", NoQuery, 200, final)
    /\ UNCHANGED <<hist, batters>>
    /\ UNCHANGED <<call, run, view>>

(***************************************************************************)
(* Specification of the handlers.                                          *)
(***************************************************************************)
Init ==
    /\ \/ hist \in HistFiles /\ batters = <<>>
       \/ hist = EmptyFile /\ batters \in BatterFiles
    /\ historyJson = <<>>
    /\ resp = NoResponse
    /\ call = NoCall
    /\ run = NoRun
    /\ view = NoView

Next ==
    \/ BestProps
    \/ Part011BestProps
    \/ GameTopProps
    \/ GameCards

Spec == Init /\ [][Next]_vars

(***************************************************************************)
(* Specification of the handlers over history files whose header lacks one *)
(* of the columns the handlers look for.                                   *)
(***************************************************************************)
SchemaFiles ==
    {MissingFile, EmptyFile}
    \cup {HistFile(TRUE, FullHeaders \ {c}, rows) :
            c \in {"bet_type", "player_name", "team"},
            rows \in SeqsUpTo({HistRow(pr, "Best Prop") : pr \in PropPool}, MaxRows)}

InitSchema ==
    /\ hist \in SchemaFiles
    /\ batters = <<>>
    /\ historyJson = <<>>
    /\ resp = NoResponse
    /\ call = NoCall
    /\ run = NoRun
    /\ view = NoView

NextSchema ==
    \/ BestProps
    \/ Part011BestProps
    \/ GameTopProps

SpecSchema == InitSchema /\ [][NextSchema]_vars

(***************************************************************************)
(* Specification of the scoring functions: each step is one call of        *)
(* zScore on a cohort, of zscore on a row's (value, mean, std), or of the  *)
(* three conversions on a z-score, the files being left alone.             *)
(***************************************************************************)
\* zscore of the second game-cards handler (game-cards.js, lines 146-149):
\* !x holds of 0 and of NaN.
zscore(val, mean, std) ==
    IF \/ val.nan \/ val.v = 0
       \/ mean.nan \/ mean.v = 0
       \/ std.nan \/ std.v = 0
    THEN ZZero
    ELSE Z(Sign(val.v - mean.v) * Sign(std.v),
           (val.v - mean.v) * (val.v - mean.v), std.v * std.v)

ScoreValues == {Num(v) : v \in 0..MaxScore} \cup {NaN}

Cohorts == SeqsUpTo(ScoreValues, MaxCohort)

\* The percentage a card shows for a z-score of the cohort.
CardPct(z) == IF z.nan THEN NaN ELSE Num(zScoreToProbability(toFixed2(z)))

\* A scoring call: the function, its arguments, and its result once it has
\* returned.
Pending(fn, args) == Call(fn, args, FALSE, <<>>)

Returned(c, result) == Call(c.fn, c.args, TRUE, result)

ApplyZScore ==
    /\ call.fn = "zScore" /\ ~call.done
    /\ LET zs == zScore(call.args)
       IN  call' = Returned(call, [z |-> zs,
                                   pct |-> [i \in 1..Len(zs) |-> CardPct(zs[i])]])
    /\ UNCHANGED <<hist, batters, historyJson, resp, run, view>>

ApplyZscore ==
    /\ call.fn = "zscore" /\ ~call.done
    /\ call' = Returned(call, zscore(call.args[1], call.args[2], call.args[3]))
    /\ UNCHANGED <<hist, batters, historyJson, resp, run, view>>

Conversions(zc) == <<zScoreToProbability(zc), zScoreToPercentage(zc), zToPercent(zc)>>

\* The conversions of a first z-score, and then of z-scores each a step
\* above the last; the call keeps the last conversion beside the new one.
Convert ==
    /\ call.fn = "convert"
    /\ \/ /\ ~call.done
          /\ call' = Returned(call, [p |-> Conversions(call.args.z),
                                     prevp |-> Conversions(call.args.z)])
       \/ /\ call.done
          /\ \E d \in 1..MaxStep :
                /\ call.args.z + d <= MaxZ
                /\ call' = Call("convert",
                                [z |-> call.args.z + d, prev |-> call.args.z], TRUE,
                                [p |-> Conversions(call.args.z + d),
                                 prevp |-> call.result.p])
    /\ UNCHANGED <<hist, batters, historyJson, resp, run, view>>

ScoreCalls ==
    {Pending("zScore", series) : series \in Cohorts}
    \cup {Pending("zscore", <<val, mean, std>>) :
            val \in ScoreValues, mean \in ScoreValues, std \in ScoreValues}
    \cup {Pending("convert", [z |-> zc, prev |-> zc]) : zc \in (0 - MaxZ)..MaxZ}

InitScore ==
    /\ hist = MissingFile
    /\ batters = <<>>
    /\ historyJson = <<>>
    /\ resp = NoResponse
    /\ call \in ScoreCalls
    /\ run = NoRun
    /\ view = NoView

NextScore ==
    \/ ApplyZScore
    \/ ApplyZscore
    \/ Convert

SpecScore == InitScore /\ [][NextScore]_vars

(***************************************************************************)
(* The context merger (scripts/splitbatters.csv): the split of the day's   *)
(* batters into home and away files, and the projection run over the two   *)
(* parts.  A csv file is missing, or has no byte, or is a table with a     *)
(* header and rows.                                                        *)
(***************************************************************************)
CsvMissing == [kind |-> "missing", rows |-> <<>>]

CsvZero == [kind |-> "zero", rows |-> <<>>]

CsvTable(rows) == [kind |-> "table", rows |-> rows]

\* pd.read_csv: FileNotFoundError on a missing file, EmptyDataError on a
\* file with no byte, the table otherwise.
read_csv(file) ==
    CASE file.kind = "missing" -> "FileNotFoundError"
      [] file.kind = "zero" -> "EmptyDataError"
      [] OTHER -> "ok"

\* Sequences over S of length 0..n that repeat no element.
DistinctSeqsUpTo(S, n) ==
    {q \in SeqsUpTo(S, n) : \A i, j \in 1..Len(q) : i # j => q[i] # q[j]}

\* batters_today.csv: cleaned batters, each once; one has a blank team cell.
TodayPool ==
    { [name |-> "Aaron Judge", team |-> "Yankees"],
      [name |-> "Shohei Ohtani", team |-> "Dodgers"],
      [name |-> "Mike Trout", team |-> "Angels"],
      [name |-> "Jose Abreu", team |-> ""] }

TodayFiles ==
    {CsvMissing, CsvZero} \cup {CsvTable(q) : q \in DistinctSeqsUpTo(TodayPool, MaxToday)}

\* todaysgames_normalized.csv: the Yankees visit the Dodgers, and may host
\* them in a second game of the day.
GamePool ==
    { [away_team |-> "Yankees", home_team |-> "Dodgers"],
      [away_team |-> "Dodgers", home_team |-> "Yankees"],
      [away_team |-> "Red Sox", home_team |-> "Giants"] }

GamesFiles ==
    {CsvMissing, CsvZero} \cup {CsvTable(q) : q \in SeqsUpTo(GamePool, MaxGames)}

\* split_batters_by_team_location (lines 4-39): what it printed, whether it
\* wrote its two files, and the files.
SplitResult(printed, written, home, away) ==
    [printed |-> printed, written |-> written,
     batters_home |-> home, batters_away |-> away]

split_batters_by_team_location(batters_today, games) ==
    LET first == IF read_csv(batters_today) # "ok" THEN read_csv(batters_today)
                 ELSE read_csv(games)
    IN  IF first = "FileNotFoundError"
        THEN SplitResult("Error: One of the input files not found", FALSE,
                         CsvMissing, CsvMissing)
        ELSE IF first = "EmptyDataError"
        THEN SplitResult("Error: One of the input files is empty", FALSE,
                         CsvMissing, CsvMissing)
        ELSE LET home_teams == {g.home_team : g \in Range(games.rows)}
                 away_teams == {g.away_team : g \in Range(games.rows)}
             IN  SplitResult("", TRUE,
                     CsvTable(SelectSeq(batters_today.rows,
                                        LAMBDA b : b.team \in home_teams)),
                     CsvTable(SelectSeq(batters_today.rows,
                                        LAMBDA b : b.team \in away_teams)))

SplitBatters ==
    /\ call.fn = "split_batters_by_team_location" /\ ~call.done
    /\ call' = Returned(call, split_batters_by_team_location(
                                  call.args.batters_today, call.args.games))
    /\ UNCHANGED <<hist, batters, historyJson, resp, run, view>>

\* project_batter_props (lines 66-94): one projected row per batter row.
project_batter_props(df, context) ==
    [i \in 1..Len(df) |->
        [name |-> df[i].name, team |-> df[i].team,
         prop_type |-> "total_bases", context |-> context]]

\* main (lines 96-111): the home and the away projections, concatenated.
main(bat_home, bat_away) ==
    project_batter_props(bat_home.rows, "home")
        \o project_batter_props(bat_away.rows, "away")

\* The projection run over the two files the split wrote.
ProjectBatterProps ==
    /\ call.fn = "split_batters_by_team_location" /\ call.done
    /\ call.result.written
    /\ call' = Call("main",
                    [bat_home |-> call.result.batters_home,
                     bat_away |-> call.result.batters_away], TRUE,
                    main(call.result.batters_home, call.result.batters_away))
    /\ UNCHANGED <<hist, batters, historyJson, resp, run, view>>

\* batter_props_projected.csv as /api/game-cards reads it on such a day.
MergeBatterFiles ==
    {[i \in 1..Len(q) |->
         [name |-> q[i].name, team |-> q[i].team,
          total_hits_projection |-> 1, avg_hr |-> 0]] :
     q \in DistinctSeqsUpTo(TodayPool, MaxToday)}

MergeCalls ==
    {Pending("split_batters_by_team_location",
             [batters_today |-> b, games |-> g]) :
        b \in TodayFiles, g \in GamesFiles}

InitMerge ==
    /\ hist = MissingFile
    /\ \/ batters \in MergeBatterFiles /\ call = NoCall
       \/ batters = <<>> /\ call \in MergeCalls
    /\ historyJson = <<>>
    /\ resp = NoResponse
    /\ run = NoRun
    /\ view = NoView

NextMerge ==
    \/ SplitBatters
    \/ ProjectBatterProps
    \/ GameCards

SpecMerge == InitMerge /\ [][NextMerge]_vars

(***************************************************************************)
(* Specification of the name helpers: each step is one call of             *)
(* toLastFirstLower on a name string, or one lookup of a stat row's name   *)
(* in the id map built from a batter file.                                 *)
(***************************************************************************)
FirstTokens == {"Aaron", "Elly"}

LastTokens == {"Judge", "De", "Cruz"}

NonEmptySeqsUpTo(S, n) == SeqsUpTo(S, n) \ {<<>>}

\* A player: the words of the first name(s) and of the last name.
Players ==
    {[first |-> f, last |-> l] :
        f \in NonEmptySeqsUpTo(FirstTokens, MaxNameWords),
        l \in NonEmptySeqsUpTo(LastTokens, MaxNameWords)}

\* The players named by one first name and a one-word last name.
PlainPlayers == {pl \in Players : Len(pl.first) = 1 /\ Len(pl.last) = 1}

\* The player's name written 'First Last' and written 'Last, First'.
FirstLastForm(pl) == Str(pl.first \o pl.last, <<>>, FALSE)

LastFirstForm(pl) == Str(pl.last, pl.first, TRUE)

\* Name strings: with a comma, any words before and after it; without,
\* any words.
NameStrings ==
    {Str(pre, post, TRUE) :
        pre \in SeqsUpTo(LastTokens, MaxNameWords),
        post \in SeqsUpTo(FirstTokens, MaxNameWords)}
    \cup {Str(pre, <<>>, FALSE) :
            pre \in SeqsUpTo(FirstTokens \cup LastTokens, MaxNameWords)}

ApplyToLastFirstLower ==
    /\ call.fn = "toLastFirstLower" /\ ~call.done
    /\ call' = Returned(call, toLastFirstLower(call.args))
    /\ UNCHANGED <<hist, batters, historyJson, resp, run, view>>

\* Lines 69-71 of best-props.js for a row naming the player 'First Last',
\* with the id map of a batter file naming the player 'Last, First'.
LookupPlayerId ==
    /\ call.fn = "nameToId" /\ ~call.done
    /\ LET bat == <<[name |-> LastFirstForm(call.args.entry), player_id |-> "592450"]>>
           rawName == FirstLastForm(call.args.row)
       IN  call' = Returned(call, nameToIdIn(bat, toLastFirstLower(rawName)))
    /\ UNCHANGED <<hist, batters, historyJson, resp, run, view>>

NameCalls ==
    {Pending("toLastFirstLower", s) : s \in NameStrings}
    \cup UNION {{Pending("nameToId", [entry |-> e, row |-> r]) :
                    r \in {e} \cup PlainPlayers} : e \in Players}

InitNames ==
    /\ hist = MissingFile
    /\ batters = <<>>
    /\ historyJson = <<>>
    /\ resp = NoResponse
    /\ call \in NameCalls
    /\ run = NoRun
    /\ view = NoView

NextNames ==
    \/ ApplyToLastFirstLower
    \/ LookupPlayerId

SpecNames == InitNames /\ [][NextNames]_vars

(***************************************************************************)
(* The roster builder and the deduplicator.  Their scripts                 *)
(* (build_player_team_master.py and the duplicate check the README of      *)
(* unnamed/part_000 names) are not among the sources: they are modelled    *)
(* from the specification, sections 4.1, 4.2 and 4.5.                      *)
(***************************************************************************)
\* Steps 1, 2 and 4 of the normalizer on one word: marks and punctuation
\* removed, first letter in capitals and the rest in lower case.
CleanWord(t) ==
    CASE t \in {"Judge", "judge", "JUDGE"} -> "Judge"
      [] t \in {"Aaron", "aaron", "AARON"} -> "Aaron"
      [] t \in {"Peña", "Pena", "pena"} -> "Pena"
      [] t \in {"Roberto", "roberto", "Roberto."} -> "Roberto"
      [] OTHER -> t

CleanWords(ts) == [i \in 1..Len(ts) |-> CleanWord(ts[i])]

\* The normalizer (4.1): the name split at its comma, or else at its last
\* word, each word cleaned, written 'Last, First'.
normalize(s) ==
    IF s.comma THEN Str(CleanWords(s.pre), CleanWords(s.post), TRUE)
    ELSE IF Len(s.pre) >= 2
         THEN Str(<<CleanWord(s.pre[Len(s.pre)])>>,
                  CleanWords(SubSeq(s.pre, 1, Len(s.pre) - 1)), TRUE)
         ELSE Str(CleanWords(s.pre), <<>>, TRUE)

\* The order of the strings of the model.
NameRank(n) ==
    CASE n = LastFirst("Judge", "Aaron") -> 1
      [] n = LastFirst("Ohtani", "Shohei") -> 2
      [] n = LastFirst("Pena", "Roberto") -> 3
      [] OTHER -> 4

TeamRank(t) == CASE t = "Dodgers" -> 1 [] t = "Yankees" -> 2 [] OTHER -> 3

RoleRank(r) == IF r = "batter" THEN 1 ELSE 2

IdentityOf(r) == <<r.name, r.team, r.type>>

\* a <= b in the lexicographic order of three ranks.
RanksLeq(a, b) ==
    \/ a[1] < b[1]
    \/ a[1] = b[1] /\ a[2] < b[2]
    \/ a[1] = b[1] /\ a[2] = b[2] /\ a[3] <= b[3]

RosterRanks(r) == <<TeamRank(r.team), RoleRank(r.type), NameRank(r.name)>>

DedupeRanks(r) == <<NameRank(r.name), TeamRank(r.team), RoleRank(r.type)>>

\* Stable insertion of r into a table sorted by DedupeRanks.
RECURSIVE InsertByIdentity(_, _)
InsertByIdentity(sorted, r) ==
    IF sorted = <<>> THEN <<r>>
    ELSE IF RanksLeq(DedupeRanks(Head(sorted)), DedupeRanks(r))
         THEN <<Head(sorted)>> \o InsertByIdentity(Tail(sorted), r)
         ELSE <<r>> \o sorted

RECURSIVE SortByIdentity(_, _)
SortByIdentity(rows, sorted) ==
    IF rows = <<>> THEN sorted
    ELSE SortByIdentity(Tail(rows), InsertByIdentity(sorted, Head(rows)))

\* CollapsePairs: the collapse going on after the row it dropped, without
\* comparing the row it kept with the next one.
RECURSIVE CollapsePairs(_)
CollapsePairs(rows) ==
    IF Len(rows) <= 1 THEN rows
    ELSE IF IdentityOf(rows[1]) = IdentityOf(rows[2])
         THEN <<rows[1]>> \o CollapsePairs(SubSeq(rows, 3, Len(rows)))
         ELSE <<rows[1]>> \o CollapsePairs(Tail(rows))

\* Consecutive rows of one identity collapsed to the first of them.
RECURSIVE Collapse(_)
Collapse(rows) ==
    IF Len(rows) <= 1 THEN rows
    ELSE IF IdentityOf(rows[1]) = IdentityOf(rows[2])
         THEN Collapse(<<rows[1]>> \o SubSeq(rows, 3, Len(rows)))
         ELSE <<rows[1]>> \o Collapse(Tail(rows))

\* DeduplicateExactRows: the collapse of rows equal in every column only.
DeduplicateExactRows(rows) ==
    LET sorted == SortByIdentity(rows, <<>>)
    IN  [i \in 1..Cardinality({j \in 1..Len(sorted) : j = 1 \/ sorted[j] # sorted[j - 1]}) |->
            LET kept == {j \in 1..Len(sorted) : j = 1 \/ sorted[j] # sorted[j - 1]}
            IN  sorted[CHOOSE j \in kept : Cardinality({m \in kept : m <= j}) = i]]

\* The deduplicator (4.5): stable sort by identity, then collapse.
Deduplicate(rows) == Collapse(SortByIdentity(rows, <<>>))

\* Tagged rows: a name, team and type, and one more column.
TaggedPool ==
    {[name |-> n, team |-> t, type |-> "batter", ab |-> ab] :
        n \in {LastFirst("Judge", "Aaron"), LastFirst("Ohtani", "Shohei")},
        t \in {"Yankees", "Dodgers"}, ab \in {1, 2}}
    \cup {[name |-> LastFirst("Judge", "Aaron"), team |-> "Yankees",
           type |-> "pitcher", ab |-> 1]}

RunDeduplicator ==
    /\ call.fn = "deduplicate" /\ ~call.done
    /\ call' = Returned(call, Deduplicate(call.args))
    /\ UNCHANGED <<hist, batters, historyJson, resp, run, view>>

\* A team file: the team and role its name implies, and its name column.
NameLists ==
    { <<>>,
      <<LastFirst("Judge", "Aaron")>>,
      <<FirstLast("aaron", "judge"), LastFirst("JUDGE", "AARON")>>,
      <<LastFirst("Judge", "Aaron"), LastFirst("Judge", "Aaron")>>,
      <<LastFirst("Peña", "Roberto"), LastFirst("Pena", "Roberto.")>> }

TeamFiles ==
    {[team |-> f[1], type |-> f[2], names |-> l] :
        f \in {<<"Yankees", "batter">>, <<"Yankees", "pitcher">>, <<"Dodgers", "batter">>},
        l \in NameLists}

RECURSIVE RosterRows(_)
RosterRows(files) ==
    IF files = <<>> THEN <<>>
    ELSE [i \in 1..Len(Head(files).names) |->
             [name |-> normalize(Head(files).names[i]),
              team |-> Head(files).team, type |-> Head(files).type]]
         \o RosterRows(Tail(files))

RECURSIVE InsertByRoster(_, _)
InsertByRoster(sorted, r) ==
    IF sorted = <<>> THEN <<r>>
    ELSE IF RanksLeq(RosterRanks(Head(sorted)), RosterRanks(r))
         THEN <<Head(sorted)>> \o InsertByRoster(Tail(sorted), r)
         ELSE <<r>> \o sorted

RECURSIVE SortRoster(_, _)
SortRoster(rows, sorted) ==
    IF rows = <<>> THEN sorted
    ELSE SortRoster(Tail(rows), InsertByRoster(sorted, Head(rows)))

\* BuildRosterNoDedupe: the builder without its deduplication.
BuildRosterNoDedupe(files) == SortRoster(RosterRows(files), <<>>)

\* The roster builder (4.2): every name normalized and tagged with its
\* file's team and role, the rows concatenated, exact repeats removed, and
\* the roster sorted by (team, role, name).
BuildRoster(files) == Collapse(SortRoster(RosterRows(files), <<>>))

RunRosterBuilder ==
    /\ call.fn = "build_player_team_master" /\ ~call.done
    /\ call' = Returned(call, BuildRoster(call.args))
    /\ UNCHANGED <<hist, batters, historyJson, resp, run, view>>

RosterCalls ==
    {Pending("deduplicate", rows) : rows \in SeqsUpTo(TaggedPool, MaxTable)}
    \cup {Pending("build_player_team_master", files) :
            files \in SeqsUpTo(TeamFiles, MaxFiles)}

InitRoster ==
    /\ hist = MissingFile
    /\ batters = <<>>
    /\ historyJson = <<>>
    /\ resp = NoResponse
    /\ call \in RosterCalls
    /\ run = NoRun
    /\ view = NoView

NextRoster ==
    \/ RunDeduplicator
    \/ RunRosterBuilder

SpecRoster == InitRoster /\ [][NextRoster]_vars

(***************************************************************************)
(* /api/game-projection (pages/api/game-projection.js).  A score is kept   *)
(* in thousandths; a response reports hundredths.                          *)
(***************************************************************************)
\* Number(cell) on the cells the model uses: Number('') is 0, and a cell
\* that is not numeric text is NaN.
Number(cell) ==
    CASE cell = "" -> Num(0)
      [] cell = "4.256" -> Num(4256)
      [] OTHER -> NaN

\* JSON null and a JSON number.
Null == [null |-> TRUE, v |-> 0]

Json(v) == [null |-> FALSE, v |-> v]

\* +(+x).toFixed(2) of a non-negative number, in hundredths.
ToFixed2K(v) == (v + 5) \div 10

\* h.toLowerCase() on the header names the model uses.
LowerHeader(h) ==
    CASE h = "Total" -> "total"
      [] h = "Home_Team" -> "home_team"
      [] OTHER -> h

\* li: the index of the first candidate found in the lower-cased headers,
\* 0 when none is (the code's -1).
RECURSIVE li(_, _)
li(headers, candidates) ==
    IF candidates = <<>> THEN 0
    ELSE LET hit == {i \in 1..Len(headers) : LowerHeader(headers[i]) = candidates[1]}
         IN  IF hit # {} THEN CHOOSE i \in hit : \A j \in hit : i <= j
             ELSE li(headers, Tail(candidates))

\* normTeam: String(s || '').trim().toLowerCase()
normTeam(s) == LowerTeam(s)

\* rows.find(direct) || rows.find(swapped): the matched row, 0 when none.
GameProjectionMatch(file, homeQ, awayQ, iHomeTeam, iAwayTeam) ==
    LET home(r) == normTeam(r[file.headers[iHomeTeam]])
        away(r) == normTeam(r[file.headers[iAwayTeam]])
        direct == {i \in 1..Len(file.rows) :
                      home(file.rows[i]) = homeQ /\ away(file.rows[i]) = awayQ}
        swapped == {i \in 1..Len(file.rows) :
                      home(file.rows[i]) = awayQ /\ away(file.rows[i]) = homeQ}
        first(S) == CHOOSE i \in S : \A j \in S : i <= j
    IN  IF direct # {} THEN first(direct)
        ELSE IF swapped # {} THEN first(swapped)
        ELSE 0

\* Lines 78-92: the three numbers of the matched row.
GameProjectionNumbers(file, match, iHomeScore, iAwayScore, iTotal) ==
    LET homeVal == IF iHomeScore # 0 THEN Number(match[file.headers[iHomeScore]]) ELSE NaN
        awayVal == IF iAwayScore # 0 THEN Number(match[file.headers[iAwayScore]]) ELSE NaN
        totalVal == IF iTotal # 0 THEN Number(match[file.headers[iTotal]]) ELSE NaN
        total == IF ~totalVal.nan THEN Json(ToFixed2K(totalVal.v))
                 ELSE IF ~homeVal.nan /\ ~awayVal.nan
                      THEN Json(ToFixed2K(10 * ToFixed2K(homeVal.v + awayVal.v)))
                      ELSE Null
    IN  [home |-> IF homeVal.nan THEN Null ELSE Json(ToFixed2K(homeVal.v)),
         away |-> IF awayVal.nan THEN Null ELSE Json(ToFixed2K(awayVal.v)),
         total |-> total]

NoProjection == [home |-> Null, away |-> Null, total |-> Null]

GameProjectionResponse(file, q) ==
    LET homeQ == normTeam(q.home)
        awayQ == normTeam(q.away)
        iHomeTeam == li(file.headers, <<"home_team", "hometeam", "home">>)
        iAwayTeam == li(file.headers, <<"away_team", "awayteam", "away", "visitor">>)
        iHomeScore == li(file.headers, <<"home_score", "home_prediction", "homeprojected",
                                         "homeproj", "home_runs", "home_runs_proj">>)
        iAwayScore == li(file.headers, <<"away_score", "away_prediction", "awayprojected",
                                         "awayproj", "away_runs", "away_runs_proj">>)
        iTotal == li(file.headers, <<"total", "game_total", "projected_total", "run_total",
                                     "real_run_total_projection">>)
    IN  IF homeQ = "" \/ awayQ = ""
        THEN Response("game-projection", q, 400, <<>>)
        ELSE IF file.rows = <<>>
        THEN Response("game-projection", q, 200, NoProjection)
        ELSE IF iHomeTeam = 0 \/ iAwayTeam = 0
        THEN Response("game-projection", q, 500, <<>>)
        ELSE LET m == GameProjectionMatch(file, homeQ, awayQ, iHomeTeam, iAwayTeam)
             IN  IF m = 0 THEN Response("game-projection", q, 200, NoProjection)
                 ELSE Response("game-projection", q, 200,
                               GameProjectionNumbers(file, file.rows[m],
                                                     iHomeScore, iAwayScore, iTotal))

GameProjection ==
    /\ call.fn = "game-projection" /\ ~call.done
    /\ call' = Returned(call, GameProjectionResponse(call.args.file, call.args.query))
    /\ UNCHANGED <<hist, batters, historyJson, resp, run, view>>

\* The headers of game_props_history.csv the model uses: all five columns,
\* no total column, no score columns, and no away-team column.
ProjHeaders ==
    { <<"Home_Team", "away_team", "home_score", "away_score", "Total">>,
      <<"home", "visitor", "home_runs", "away_runs">>,
      <<"home_team", "away_team", "game_total">>,
      <<"home_team", "home_score", "away_score", "total">> }

ProjCells == {"", "4.256", "TBD"}

\* A data row under a header: its team cells name a game, its other cells
\* are drawn from ProjCells.
ProjRows(headers) ==
    LET teams == {"home_team", "away_team", "home", "visitor"}
        hs == {LowerHeader(headers[i]) : i \in 1..Len(headers)}
    IN  {[h \in Range(headers) |->
            IF LowerHeader(h) \in {"home_team", "home"} THEN g[1]
            ELSE IF LowerHeader(h) \in {"away_team", "visitor"} THEN g[2]
            ELSE c[LowerHeader(h)]] :
         g \in {<<"Dodgers", "Yankees">>, <<"Yankees", "Dodgers">>},
         c \in [hs \ teams -> ProjCells]}

ProjFiles ==
    UNION {{[headers |-> h, rows |-> rows] : rows \in SeqsUpTo(ProjRows(h), MaxProjRows)} :
           h \in ProjHeaders}

InitProjection ==
    /\ hist = MissingFile
    /\ batters = <<>>
    /\ historyJson = <<>>
    /\ resp = NoResponse
    /\ call \in {Pending("game-projection", [file |-> f, query |-> q]) :
                    f \in ProjFiles, q \in Queries}
    /\ run = NoRun
    /\ view = NoView

NextProjection == GameProjection

SpecProjection == InitProjection /\ [][NextProjection]_vars

(***************************************************************************)
(* components/GameCard.jsx: the two effects that load a card's props and   *)
(* its projection.  A request in flight carries the cancel flag of the      *)
(* effect run that issued it.                                              *)
(***************************************************************************)
NoGame == [game_id |-> 0, home_team |-> "", away_team |-> ""]

CardGames ==
    { [game_id |-> 1, home_team |-> "Red Sox", away_team |-> "Yankees"],
      [game_id |-> 2, home_team |-> "Giants", away_team |-> "Dodgers"],
      [game_id |-> 3, home_team |-> "Giants", away_team |-> "Dodgers"] }

\* The dependency list [game?.home_team, game?.away_team].
Deps(game) == <<game.home_team, game.away_team>>

\* What a state setter stores: the request it answers and what it holds.
Loaded(req, data) == [from |-> req.id, deps |-> req.deps, data |-> data]

NotLoaded == [from |-> 0, deps |-> <<"", "">>, data |-> "initial"]

\* CleanupNone: the effects' cleanup leaving every cancel flag as it is.
CleanupNone(reqs) == reqs

\* The cleanup of both effects: cancel = true in the closures of the runs
\* that issued the requests in flight.
Cleanup(reqs) == {[r EXCEPT !.cancel = TRUE] : r \in reqs}

\* One run of the two effects for a game: nothing when there is no game,
\* else one request to each API.
EffectRequests(game, next) ==
    IF game = NoGame THEN {}
    ELSE { [id |-> next + 1, api |-> "game-top-props", deps |-> Deps(game), cancel |-> FALSE],
           [id |-> next + 2, api |-> "game-projection", deps |-> Deps(game), cancel |-> FALSE] }

GameCardView(game, reqs, autoProps, autoProj, mounted, discarded) ==
    [kind |-> "GameCard", game |-> game, reqs |-> reqs, next |-> Cardinality(reqs),
     autoProps |-> autoProps, autoProj |-> autoProj, mounted |-> mounted,
     discarded |-> discarded]

\* The parent renders the card with another game object.  The effects run
\* again only when the dependency list differs.
GameCardRender ==
    /\ view.kind = "GameCard" /\ view.mounted
    /\ view.next + 2 <= MaxRequests
    /\ \E g \in (CardGames \cup {NoGame}) \ {view.game} :
          view' = IF Deps(g) = Deps(view.game)
                  THEN [view EXCEPT !.game = g]
                  ELSE LET new == EffectRequests(g, view.next)
                       IN  [view EXCEPT !.game = g,
                                        !.reqs = Cleanup(view.reqs) \cup new,
                                        !.next = view.next + Cardinality(new)]
    /\ UNCHANGED <<hist, batters, historyJson, resp, call>>
    /\ UNCHANGED run

GameCardUnmount ==
    /\ view.kind = "GameCard" /\ view.mounted
    /\ view' = [view EXCEPT !.mounted = FALSE, !.reqs = Cleanup(view.reqs)]
    /\ UNCHANGED <<hist, batters, historyJson, resp, call>>
    /\ UNCHANGED run

\* A request settles: an ok response with a list or an object, a response
\* that is not ok, or a rejected fetch.  The setter runs unless cancel is set.
GameCardResponse ==
    /\ view.kind = "GameCard"
    /\ \E r \in view.reqs, outcome \in {"ok", "not ok", "rejected"} :
          LET data == IF outcome = "ok" THEN "data"
                      ELSE IF r.api = "game-top-props" THEN "[]" ELSE "null"
              rest == view.reqs \ {r}
          IN  view' = IF r.cancel
                      THEN [view EXCEPT !.reqs = rest,
                                        !.discarded = view.discarded \cup {r.id}]
                      ELSE IF r.api = "game-top-props"
                      THEN [view EXCEPT !.reqs = rest, !.autoProps = Loaded(r, data)]
                      ELSE [view EXCEPT !.reqs = rest, !.autoProj = Loaded(r, data)]
    /\ UNCHANGED <<hist, batters, historyJson, resp, call>>
    /\ UNCHANGED run

\* The card after its first render and the first run of its effects.
InitGameCard ==
    /\ hist = MissingFile
    /\ batters = <<>>
    /\ historyJson = <<>>
    /\ resp = NoResponse
    /\ call = NoCall
    /\ run = NoRun
    /\ \E g \in CardGames \cup {NoGame} :
          view = GameCardView(g, EffectRequests(g, 0), NotLoaded, NotLoaded, TRUE, {})

NextGameCard ==
    \/ GameCardRender
    \/ GameCardUnmount
    \/ GameCardResponse

SpecGameCard == InitGameCard /\ [][NextGameCard]_vars

(***************************************************************************)
(* components/TopPropsCard.jsx and the list components/App.jsx gives it.   *)
(***************************************************************************)
\* The topProps of App's two games, in the order of flatMap.
AppProps ==
    << [playerId |-> 1, name |-> "Aaron Judge", line |-> "Over 1.5 Hits", probability |-> 85],
       [playerId |-> 2, name |-> "Gleyber Torres", line |-> "Over 0.5 HR", probability |-> 60],
       [playerId |-> 3, name |-> "Shohei Ohtani", line |-> "Over 2.5 Total Bases", probability |-> 92],
       [playerId |-> 4, name |-> "Mookie Betts", line |-> "Over 1.5 Hits", probability |-> 88] >>

\* allProps.sort((a, b) => b.probability - a.probability), a stable sort.
RECURSIVE SortByProbability(_)
SortByProbability(list) ==
    IF list = <<>> THEN <<>>
    ELSE LET best == CHOOSE i \in 1..Len(list) :
                        \A j \in 1..Len(list) :
                           \/ list[i].probability > list[j].probability
                           \/ list[i].probability = list[j].probability /\ i <= j
         IN  <<list[best]>>
             \o SortByProbability(SubSeq(list, 1, best - 1) \o SubSeq(list, best + 1, Len(list)))

\* sortedProps.slice(0, 3)
AppTop3 == Take(SortByProbability(AppProps), 3)

\* The bestProps prop: not given (undefined), or a list.
Given(list) == [given |-> TRUE, list |-> list]

NotGiven == [given |-> FALSE, list |-> <<>>]

BestPropsValues ==
    {NotGiven, Given(AppTop3)} \cup {Given(l) : l \in SeqsUpTo(Range(AppProps), MaxBest)}

\* Lines 61-71 and 91-99: the entries with a key not seen before, up to n.
RECURSIVE UniqueByKey(_, _, _)
UniqueByKey(list, seen, n) ==
    IF list = <<>> \/ n = 0 THEN <<>>
    ELSE IF list[1].playerId \in seen THEN UniqueByKey(Tail(list), seen, n)
    ELSE <<list[1]>> \o UniqueByKey(Tail(list), seen \cup {list[1].playerId}, n - 1)

\* Lines 37-71: the rows of the fetched file kept by the effect.
TopPropsFetched(all) ==
    LET filtered == SelectSeq(all, LAMBDA r : r.bet_type = "Best Prop")
    IN  UniqueByKey(SortByProbability(filtered), {}, 3)

FetchedFiles ==
    SeqsUpTo({[playerId |-> pr.playerId, name |-> pr.name, line |-> pr.line,
               probability |-> pr.probability, bet_type |-> b] :
                 pr \in {AppProps[1], AppProps[3]}, b \in {"Best Prop", "Other"}}, MaxBest)

\* The effect of lines 29-81 for a value of the prop: no fetch when
\* bestProps is truthy, and an empty array is.
TopPropsEffect(bestProps) ==
    IF bestProps.given THEN "none" ELSE "in flight"

\* What the card shows: nothing (line 88), or the first three unique rows.
TopPropsRendered(v) ==
    IF ~v.ready \/ v.rows = <<>> THEN <<>>
    ELSE UniqueByKey(v.rows, {}, 3)

\* The parent renders the card with another value of bestProps.  The state
\* keeps its value (useState reads its argument at mount only); the effect
\* is cleaned up and runs again.
TopPropsParentUpdate ==
    /\ view.kind = "TopPropsCard" /\ view.mounted
    /\ view.updates < MaxBest
    /\ \E b \in BestPropsValues \ {view.bestProps} :
          view' = [view EXCEPT !.bestProps = b,
                               !.fetch = TopPropsEffect(b),
                               !.updates = view.updates + 1]
    /\ UNCHANGED <<hist, batters, historyJson, resp, call>>
    /\ UNCHANGED run

\* The fetch of the history file settles, with a file or with a failure.
TopPropsFetchSettles ==
    /\ view.kind = "TopPropsCard" /\ view.mounted
    /\ view.fetch = "in flight"
    /\ \/ \E all \in FetchedFiles :
             view' = [view EXCEPT !.fetch = "none", !.rows = TopPropsFetched(all),
                                  !.ready = TRUE]
       \/ view' = [view EXCEPT !.fetch = "none", !.rows = <<>>, !.ready = TRUE]
    /\ UNCHANGED <<hist, batters, historyJson, resp, call>>
    /\ UNCHANGED run

\* The card at mount: useState(bestProps || []), useState(!!bestProps),
\* and the first run of the effect.
InitTopProps ==
    /\ hist = MissingFile
    /\ batters = <<>>
    /\ historyJson = <<>>
    /\ resp = NoResponse
    /\ call = NoCall
    /\ run = NoRun
    /\ \E b \in BestPropsValues :
          view = [kind |-> "TopPropsCard", mounted |-> TRUE, bestProps |-> b,
                  rows |-> b.list, ready |-> b.given, fetch |-> TopPropsEffect(b),
                  updates |-> 0]

NextTopProps ==
    \/ TopPropsParentUpdate
    \/ TopPropsFetchSettles

\* A fetch in flight settles.
SpecTopProps ==
    InitTopProps /\ [][NextTopProps]_vars /\ WF_vars(TopPropsFetchSettles)

(***************************************************************************)
(* The filterable GameCards page (unnamed/part_009, lines 79-190).  A prop *)
(* text 'Name, Team – Stat' is kept as its three parts.                    *)
(***************************************************************************)
PropText(name, team, stat) == [name |-> name, team |-> team, stat |-> stat]

CardPool ==
    { [matchup |-> "Yankees @ Dodgers",
       props |-> <<PropText("Aaron Judge", "Yankees", "Home Runs"),
                   PropText("Gerrit Cole", "Yankees", "Strikeouts"),
                   PropText("Shohei Ohtani", "Dodgers", "Total Bases")>>],
      [matchup |-> "Red Sox @ Giants",
       props |-> <<PropText("Logan Webb", "Giants", "ERA")>>],
      [matchup |-> "Angels @ Giants",
       props |-> <<PropText("Mike Trout", "Angels", "Hits")>>] }

CardFiles == SeqsUpTo(CardPool, MaxCards)

\* allTeams: the teams named by the props of the cards.
allTeams(cards) ==
    UNION {{p.team : p \in Range(cards[i].props)} : i \in 1..Len(cards)}

\* result.map(card => ({...card, props: ...})).filter(card => card.props.length > 0)
CardsWithProps(cards) == SelectSeq(cards, LAMBDA c : c.props # <<>>)

isPitcher(stat) == stat \in {"Strikeouts", "ERA", "xFIP", "Expected wOBA"}

\* Lines 113-118: the props of the selected team.
FilterByTeam(cards, teamFilter) ==
    CardsWithProps([i \in 1..Len(cards) |->
        [cards[i] EXCEPT !.props = SelectSeq(cards[i].props,
                                             LAMBDA p : p.team = teamFilter)]])

\* Lines 119-128: the props of the selected type.
FilterByType(cards, typeFilter) ==
    CardsWithProps([i \in 1..Len(cards) |->
        [cards[i] EXCEPT !.props =
            SelectSeq(cards[i].props,
                      LAMBDA p : \/ typeFilter = "Pitcher" /\ isPitcher(p.stat)
                                 \/ typeFilter = "Batter" /\ ~isPitcher(p.stat))]])

\* handleFilter over the cards and the filters of the render it runs in.
handleFilter(cards, teamFilter, typeFilter) ==
    LET byTeam == IF teamFilter # "All" THEN FilterByTeam(cards, teamFilter) ELSE cards
    IN  IF typeFilter # "All" THEN FilterByType(byTeam, typeFilter) ELSE byTeam

\* The fetch of game_cards_data.json resolves: setCards(data), setFiltered(data).
GameCardsLoaded ==
    /\ view.kind = "GameCards" /\ view.fetch = "in flight"
    /\ \E data \in CardFiles :
          view' = [view EXCEPT !.cards = data, !.filtered = data, !.fetch = "done"]
    /\ UNCHANGED <<hist, batters, historyJson, resp, call>>
    /\ UNCHANGED run

\* The user picks another team; the effect of lines 132-134 runs handleFilter.
SetTeamFilter ==
    /\ view.kind = "GameCards"
    /\ view.changes < MaxCards
    /\ \E t \in ({"All"} \cup allTeams(view.cards)) \ {view.teamFilter} :
          view' = [view EXCEPT !.teamFilter = t,
                               !.filtered = handleFilter(view.cards, t, view.typeFilter),
                               !.changes = view.changes + 1]
    /\ UNCHANGED <<hist, batters, historyJson, resp, call>>
    /\ UNCHANGED run

\* The user picks another type.
SetTypeFilter ==
    /\ view.kind = "GameCards"
    /\ view.changes < MaxCards
    /\ \E t \in {"All", "Batter", "Pitcher"} \ {view.typeFilter} :
          view' = [view EXCEPT !.typeFilter = t,
                               !.filtered = handleFilter(view.cards, view.teamFilter, t),
                               !.changes = view.changes + 1]
    /\ UNCHANGED <<hist, batters, historyJson, resp, call>>
    /\ UNCHANGED run

\* The page after mount: the fetch is in flight and the filter effect has
\* run over no cards.
InitGameCards ==
    /\ hist = MissingFile
    /\ batters = <<>>
    /\ historyJson = <<>>
    /\ resp = NoResponse
    /\ call = NoCall
    /\ run = NoRun
    /\ view = [kind |-> "GameCards", cards |-> <<>>,
               filtered |-> handleFilter(<<>>, "All", "All"),
               teamFilter |-> "All", typeFilter |-> "All",
               fetch |-> "in flight", changes |-> 0]

NextGameCards ==
    \/ GameCardsLoaded
    \/ SetTeamFilter
    \/ SetTypeFilter

SpecGameCards == InitGameCards /\ [][NextGameCards]_vars

(***************************************************************************)
(* The refresh page (pages/refresh.js, and the version with a password in  *)
(* pages/api/game-top-props.js, lines 178-266) and the /api/refresh        *)
(* handler (unnamed/part_014, lines 26-38).                                *)
(***************************************************************************)
PASSWORD == "!refre$h"

Inputs == {"", PASSWORD, "refresh"}

\* What the page shows: the password form, or the Regenerate Props button.
ButtonShown(v) == ~v.gated \/ v.unlocked

\* The fetches of handleRefresh in a state.
FetchesIn(v, st) == {i \in DOMAIN v.fetches : v.fetches[i] = st}

\* onChange of the password input.
SetInput ==
    /\ view.kind = "Refresh" /\ ~ButtonShown(view)
    /\ \E i \in Inputs \ {view.input} : view' = [view EXCEPT !.input = i]
    /\ UNCHANGED <<hist, batters, historyJson, resp, call>>
    /\ UNCHANGED run

handlePassword ==
    /\ view.kind = "Refresh" /\ ~ButtonShown(view)
    /\ view' = IF view.input = PASSWORD
               THEN [view EXCEPT !.unlocked = TRUE, !.status = ""]
               ELSE [view EXCEPT !.status = "Incorrect password."]
    /\ UNCHANGED <<hist, batters, historyJson, resp, call>>
    /\ UNCHANGED run

\* handleRefresh up to its first await: the status is set and the request
\* is sent.  Nothing disables the button while a request is in flight.
handleRefresh ==
    /\ view.kind = "Refresh" /\ ButtonShown(view)
    /\ Len(view.fetches) < MaxClicks
    /\ view' = [view EXCEPT !.status = "Refreshing...",
                            !.fetches = Append(view.fetches, "sent")]
    /\ UNCHANGED <<hist, batters, historyJson, resp, call>>
    /\ UNCHANGED run

\* The handler of /api/refresh for a request of the page: it runs the
\* generator script and answers 200 with success, or 500 with the error.
RefreshHandler ==
    /\ view.kind = "Refresh"
    /\ \E i \in FetchesIn(view, "sent"), ok \in BOOLEAN :
          /\ view' = [view EXCEPT !.fetches[i] = IF ok THEN "200" ELSE "500"]
          /\ run' = [run EXCEPT !.starts = run.starts + 1]
    /\ UNCHANGED <<hist, batters, historyJson, resp, call>>

\* The same handler for a GET /api/refresh that no page sent.
RefreshRequest ==
    /\ run.kind = "refresh"
    /\ run.direct < MaxClicks
    /\ run' = [run EXCEPT !.starts = run.starts + 1, !.direct = run.direct + 1]
    /\ UNCHANGED <<hist, batters, historyJson, resp, call>>
    /\ UNCHANGED view

\* handleRefresh after its awaits.  The fetch rejects (network error), or
\* res.json() rejects (a body that is not JSON), or the answer is read.
\* A rejection ends handleRefresh there: it has no catch.
RefreshSettles ==
    /\ view.kind = "Refresh"
    /\ \E i \in DOMAIN view.fetches :
          \/ /\ view.fetches[i] = "sent"
             /\ view' = [view EXCEPT !.fetches[i] = "rejected"]
          \/ /\ view.fetches[i] \in {"200", "500"}
             /\ \/ view' = [view EXCEPT !.fetches[i] = "rejected"]
                \/ view' = [view EXCEPT !.fetches[i] = "read",
                               !.status = IF view.fetches[i] = "200"
                                          THEN "Updated!" ELSE "Failed: error"]
    /\ UNCHANGED <<hist, batters, historyJson, resp, call>>
    /\ UNCHANGED run

\* The page at mount, with or without the password form.
InitRefresh ==
    /\ hist = MissingFile
    /\ batters = <<>>
    /\ historyJson = <<>>
    /\ resp = NoResponse
    /\ call = NoCall
    /\ run = [kind |-> "refresh", starts |-> 0, direct |-> 0]
    /\ \E gated \in BOOLEAN :
          view = [kind |-> "Refresh", gated |-> gated, unlocked |-> FALSE,
                  input |-> "", status |-> "", fetches |-> <<>>]

NextRefresh ==
    \/ SetInput
    \/ handlePassword
    \/ handleRefresh
    \/ RefreshHandler
    \/ RefreshRequest
    \/ RefreshSettles

\* A request that was sent is handled, and a fetch settles.
SpecRefresh ==
    InitRefresh /\ [][NextRefresh]_vars
    /\ WF_vars(RefreshHandler) /\ WF_vars(RefreshSettles)

(***************************************************************************)
(* The server process and the files its handlers write: /api/refresh       *)
(* (unnamed/part_014) runs the generator of game_cards_data.json with      *)
(* execSync, /api/game-cards writes the day's history file with            *)
(* writeFileSync, and the pages fetch /game_cards_data.json.  A handler    *)
(* runs on the one JavaScript thread of the process; a synchronous call    *)
(* keeps the thread until it returns.  A file is half-written while a      *)
(* writer has it open.                                                     *)
(***************************************************************************)
ServerHandlers == {"refresh", "game-cards", "static"}

\* The file a handler writes or reads.
PathOf(handler) ==
    IF handler = "game-cards" THEN "data/history/date.json" ELSE "game_cards_data.json"

ServerPaths == {PathOf(h) : h \in ServerHandlers}

\* ThreadReleased: a handler that gives the thread back while its call runs
\* (exec and writeFile in place of execSync and writeFileSync).
ThreadReleased(handler, id) == 0

\* The owner of the thread while handler's synchronous call runs.
ThreadDuring(handler, id) == id

RequestsAt(pcs) == {i \in DOMAIN run.reqs : run.reqs[i].pc \in pcs}

RequestArrives ==
    /\ run.kind = "server"
    /\ Len(run.reqs) < MaxClients
    /\ \E h \in ServerHandlers :
          run' = [run EXCEPT !.reqs = Append(run.reqs, [handler |-> h, pc |-> "queued"])]
    /\ UNCHANGED <<hist, batters, historyJson, resp, call>>
    /\ UNCHANGED view

\* The thread is free and takes the handler of a queued request up to its
\* synchronous call.
HandlerStarts ==
    /\ run.kind = "server" /\ run.thread = 0
    /\ \E i \in RequestsAt({"queued"}) :
          /\ run.reqs[i].handler # "static"
          /\ run' = [run EXCEPT !.reqs[i].pc = "running",
                                !.thread = ThreadDuring(run.reqs[i].handler, i)]
    /\ UNCHANGED <<hist, batters, historyJson, resp, call>>
    /\ UNCHANGED view

\* The generator script, or writeFileSync, opens its output file.
WriteOpens ==
    /\ run.kind = "server"
    /\ \E i \in RequestsAt({"running"}) :
          LET path == PathOf(run.reqs[i].handler)
          IN  run' = [run EXCEPT !.reqs[i].pc = "writing",
                                 !.writers[path] = run.writers[path] \cup {i}]
    /\ UNCHANGED <<hist, batters, historyJson, resp, call>>
    /\ UNCHANGED view

\* The writer has written the whole file and closes it.
WriteCloses ==
    /\ run.kind = "server"
    /\ \E i \in RequestsAt({"writing"}) :
          LET path == PathOf(run.reqs[i].handler)
          IN  run' = [run EXCEPT !.reqs[i].pc = "written",
                                 !.writers[path] = run.writers[path] \ {i}]
    /\ UNCHANGED <<hist, batters, historyJson, resp, call>>
    /\ UNCHANGED view

\* The generator script exits with an error before it writes.
ScriptFails ==
    /\ run.kind = "server"
    /\ \E i \in RequestsAt({"running"}) :
          /\ run.reqs[i].handler = "refresh"
          /\ run' = [run EXCEPT !.reqs[i].pc = "failed"]
    /\ UNCHANGED <<hist, batters, historyJson, resp, call>>
    /\ UNCHANGED view

\* The synchronous call returns; the handler answers and leaves the thread.
HandlerEnds ==
    /\ run.kind = "server"
    /\ \E i \in RequestsAt({"written", "failed"}) :
          run' = [run EXCEPT !.reqs[i].pc = "done",
                             !.thread = IF run.thread = i THEN 0 ELSE run.thread]
    /\ UNCHANGED <<hist, batters, historyJson, resp, call>>
    /\ UNCHANGED view

\* The thread is free and serves /game_cards_data.json to a page.
ServeStatic ==
    /\ run.kind = "server" /\ run.thread = 0
    /\ \E i \in RequestsAt({"queued"}) :
          /\ run.reqs[i].handler = "static"
          /\ run' = [run EXCEPT !.reqs[i].pc = "done",
                                !.observed = run.observed \cup
                                    {[reader |-> i,
                                      partial |-> run.writers[PathOf("static")] # {}]}]
    /\ UNCHANGED <<hist, batters, historyJson, resp, call>>
    /\ UNCHANGED view

InitServer ==
    /\ hist = MissingFile
    /\ batters = <<>>
    /\ historyJson = <<>>
    /\ resp = NoResponse
    /\ call = NoCall
    /\ view = NoView
    /\ run = [kind |-> "server", thread |-> 0, reqs |-> <<>>,
              writers |-> [p \in ServerPaths |-> {}], observed |-> {}]

NextServer ==
    \/ RequestArrives
    \/ HandlerStarts
    \/ WriteOpens
    \/ WriteCloses
    \/ ScriptFails
    \/ HandlerEnds
    \/ ServeStatic

SpecServer == InitServer /\ [][NextServer]_vars

(***************************************************************************)
(* A run of the pipeline.  The stages before the context merger and the    *)
(* best-prop selection are scripts run by the repository's actions, in the *)
(* order of the README (unnamed/part_000) and of the design; they and the  *)
(* runner that starts each stage and stops at a reported failure are       *)
(* modelled from the design.  The context merger and the projection engine *)
(* are scripts/splitbatters.csv.  An artifact on disk is absent, old (of   *)
(* an earlier run) or new (written by this run).                           *)
(***************************************************************************)
Stages ==
    << "Roster Builder", "Stat Normalizer", "Identity Tagger", "Deduplicator",
       "Context Merger", "Projection Engine", "Best-Prop Selector" >>

\* The artifacts a stage writes.
StageOutputs(k) ==
    CASE k = 1 -> {"player_team_master.csv"}
      [] k = 2 -> {"batters_normalized.csv"}
      [] k = 3 -> {"batters_tagged.csv"}
      [] k = 4 -> {"batters_today.csv"}
      [] k = 5 -> {"batters_home.csv", "batters_away.csv"}
      [] k = 6 -> {"batter_props_projected.csv"}
      [] OTHER -> {"player_props_history.csv"}

\* The artifacts a stage reads.
StageInputs(k) ==
    CASE k = 1 -> {}
      [] k = 3 -> StageOutputs(2) \cup StageOutputs(1)
      [] OTHER -> StageOutputs(k - 1)

Artifacts == UNION {StageOutputs(k) : k \in 1..Len(Stages)}

WriteAll(disk, arts) == [a \in Artifacts |-> IF a \in arts THEN "new" ELSE disk[a]]

\* The runner after a stage has ended: it records the stage, and goes on to
\* the next stage unless the stage ended with an error status.
Executed(r, k, outcome, exit, disk) ==
    [r EXCEPT !.log = Append(r.log, [stage |-> k, outcome |-> outcome, exit |-> exit]),
              !.disk = disk,
              !.next = IF exit = 0 THEN k + 1 ELSE k,
              !.halted = exit # 0]

\* A stage of the design: it aborts with an error when an input is absent,
\* and writes its whole output otherwise.
DesignStage(r, k, uploaded) ==
    IF uploaded /\ \A a \in StageInputs(k) : r.disk[a] # "absent"
    THEN Executed(r, k, "written", 0, WriteAll(r.disk, StageOutputs(k)))
    ELSE Executed(r, k, "aborted", 1, r.disk)

\* The file read from an artifact of the disk.
FileOf(state) == IF state = "absent" THEN CsvMissing ELSE CsvTable(<<>>)

\* split_batters_by_team_location as a stage.  A failed read prints and
\* returns (lines 19-27); a failed write is caught and printed (lines 38-39)
\* after batters_home.csv may have been written; the script ends normally
\* every time.
ContextMergerStage(r, schedule, homeWritten, awayWritten) ==
    LET split == split_batters_by_team_location(FileOf(r.disk["batters_today.csv"]), schedule)
    IN  IF ~split.written \/ ~homeWritten
        THEN Executed(r, 5, "aborted", 0, r.disk)
        ELSE IF ~awayWritten
        THEN Executed(r, 5, "partial", 0, WriteAll(r.disk, {"batters_home.csv"}))
        ELSE Executed(r, 5, "written", 0, WriteAll(r.disk, StageOutputs(5)))

\* main of the projection script as a stage.  load_csv is not in the
\* sources: it raises on an absent file, as the design has it.  Nothing
\* catches an exception of load_csv or of to_csv (line 110).
ProjectionStage(r, written) ==
    IF written /\ \A a \in StageInputs(6) : r.disk[a] # "absent"
    THEN Executed(r, 6, "written", 0, WriteAll(r.disk, StageOutputs(6)))
    ELSE Executed(r, 6, "aborted", 1, r.disk)

CanRun(k) == run.kind = "pipeline" /\ ~run.halted /\ run.next = k

RosterBuilderStage ==
    /\ CanRun(1)
    /\ \E uploaded \in BOOLEAN : run' = DesignStage(run, 1, uploaded)
    /\ UNCHANGED <<hist, batters, historyJson, resp, call>>
    /\ UNCHANGED view

StatNormalizerStage ==
    /\ CanRun(2)
    /\ \E uploaded \in BOOLEAN : run' = DesignStage(run, 2, uploaded)
    /\ UNCHANGED <<hist, batters, historyJson, resp, call>>
    /\ UNCHANGED view

IdentityTaggerStage ==
    /\ CanRun(3)
    /\ run' = DesignStage(run, 3, TRUE)
    /\ UNCHANGED <<hist, batters, historyJson, resp, call>>
    /\ UNCHANGED view

DeduplicatorStage ==
    /\ CanRun(4)
    /\ run' = DesignStage(run, 4, TRUE)
    /\ UNCHANGED <<hist, batters, historyJson, resp, call>>
    /\ UNCHANGED view

ContextMerger ==
    /\ CanRun(5)
    /\ \E schedule \in {CsvMissing, CsvZero, CsvTable(<<>>)}, home, away \in BOOLEAN :
          run' = ContextMergerStage(run, schedule, home, away)
    /\ UNCHANGED <<hist, batters, historyJson, resp, call>>
    /\ UNCHANGED view

ProjectionEngine ==
    /\ CanRun(6)
    /\ \E written \in BOOLEAN : run' = ProjectionStage(run, written)
    /\ UNCHANGED <<hist, batters, historyJson, resp, call>>
    /\ UNCHANGED view

BestPropSelectorStage ==
    /\ CanRun(7)
    /\ run' = DesignStage(run, 7, TRUE)
    /\ UNCHANGED <<hist, batters, historyJson, resp, call>>
    /\ UNCHANGED view

\* A run starts over an empty disk or over the artifacts of earlier runs:
\* any of them may be there.
InitPipeline ==
    /\ hist = MissingFile
    /\ batters = <<>>
    /\ historyJson = <<>>
    /\ resp = NoResponse
    /\ call = NoCall
    /\ view = NoView
    /\ \E disk \in [Artifacts -> {"absent", "old"}] :
          run = [kind |-> "pipeline", next |-> 1, halted |-> FALSE,
                 disk |-> disk, log |-> <<>>]

NextPipeline ==
    \/ RosterBuilderStage
    \/ StatNormalizerStage
    \/ IdentityTaggerStage
    \/ DeduplicatorStage
    \/ ContextMerger
    \/ ProjectionEngine
    \/ BestPropSelectorStage

SpecPipeline == InitPipeline /\ [][NextPipeline]_vars

(***************************************************************************)
(* Properties of the selected lists.                                       *)
(***************************************************************************)
NoRepeat(s) == \A i, j \in 1..Len(s) : i # j => s[i] # s[j]

\* The players named by a sitewide best-props response, by identity key.
SitewidePlayers ==
    [i \in 1..Len(resp.body) |->
        IF resp.handler = "best-props"
        THEN toLastFirstLower(resp.body[i].player_name)
        ELSE toLastFirstLower(resp.body[i].name)]

\* The 'Best Prop' rows of the history file: the sitewide candidate pool.
BestCandidates == SelectSeq(hist.rows, LAMBDA r : r.bet_type = "Best Prop")

CandidatePlayers == {toLastFirstLower(r.player_name) : r \in Range(BestCandidates)}

\* The probability of the history row a best-props entry was made from.
ProbOf(e) ==
    LET r == CHOOSE r \in Range(hist.rows) :
                 r.player_name = e.player_name /\ r.prop_type = e.prop_type
    IN  r.probability

DistinctProbabilities(rows) ==
    \A i, j \in 1..Len(rows) : i # j => rows[i].probability # rows[j].probability

Permuted(rows, f) == [i \in 1..Len(rows) |-> rows[f[i]]]

\* C1: the sitewide best-props list never holds two entries for one player.
C1_NoDuplicatePlayer ==
    (resp.handler \in {"best-props", "part_011"} /\ resp.status = 200)
        => NoRepeat(SitewidePlayers)

\* C2: every per-game top-props list holds each player at most once, also
\* when a player qualifies under several stat types.
C2_PerGameNoDuplicatePlayer ==
    /\ (resp.handler = "game-top-props" /\ resp.status = 200)
          => NoRepeat([i \in 1..Len(resp.body) |-> resp.body[i].name])
    /\ resp.handler = "game-cards"
          => \A g \in 1..Len(resp.body) :
                NoRepeat([i \in 1..Len(resp.body[g].top_props) |->
                             resp.body[g].top_props[i].player])

\* C3: when the candidate pool holds at least 3 distinct players, the
\* selection returns exactly 3 entries naming 3 distinct players, in
\* descending probability order.
C3_ThreeDistinctDescending ==
    (/\ resp.handler = "best-props"
     /\ resp.status = 200
     /\ DistinctProbabilities(BestCandidates)
     /\ Cardinality(CandidatePlayers) >= 3)
        => /\ Len(resp.body) = 3
           /\ NoRepeat(SitewidePlayers)
           /\ \A i \in 1..(Len(resp.body) - 1) :
                 ProbOf(resp.body[i]) > ProbOf(resp.body[i + 1])

\* C4: a best-prop list never holds more than its N entries: 3 from the two
\* /api/best-props handlers and from /api/game-top-props, 5 per game from
\* /api/game-cards.
C4_AtMostN ==
    /\ resp.handler \in {"best-props", "part_011", "game-top-props"}
          => Len(resp.body) <= 3
    /\ resp.handler = "game-cards"
          => \A g \in 1..Len(resp.body) : Len(resp.body[g].top_props) <= 5

\* C4 witness: a game with more than 5 candidate props, cut to its top 5,
\* after a sitewide list of 3 could also be cut from 4 'Best Prop' rows.
C4_Witness ==
    /\ resp.handler = "game-cards"
    /\ \E g \in 1..Len(resp.body) :
          /\ Len(resp.body[g].top_props) = 5
          /\ Len(SelectSeq(GameCardsProps(batters),
                           LAMBDA p : GameKey(Weather[p.game]) = resp.body[g].game)) > 5

\* C5: the selection ranks by probability and not by row position: every
\* reordering of the same rows (with distinct probabilities) gives the list
\* that was returned.
C5_OrderIndependent ==
    (/\ resp.handler = "best-props"
     /\ resp.status = 200
     /\ DistinctProbabilities(hist.rows))
        => \A f \in Permutations(1..Len(hist.rows)) :
              BestPropsResponse([hist EXCEPT !.rows = Permuted(hist.rows, f)]).body
                  = resp.body

\* C6: selecting from an empty candidate set (a file with no data row, or
\* with no row of the wanted kind) answers 200 with the empty list.
C6_EmptyCandidatesOk ==
    /\ (/\ resp.handler \in {"best-props", "part_011"}
        /\ hist.exists
        /\ \/ hist.rows = <<>>
           \/ "bet_type" \in hist.headers /\ BestCandidates = <<>>)
          => resp.status = 200 /\ resp.body = <<>>
    /\ (/\ resp.handler = "game-top-props"
        /\ resp.query.home # "" /\ resp.query.away # ""
        /\ hist.exists
        /\ GameTopPropsFiltered(hist, resp.query) = <<>>)
          => resp.status = 200 /\ resp.body = <<>>

\* C6 witness: a file with data rows, none of them a 'Best Prop' row, was
\* answered with the empty list.
C6_Witness ==
    /\ resp.handler = "best-props"
    /\ hist.exists /\ hist.rows # <<>>
    /\ "bet_type" \in hist.headers /\ BestCandidates = <<>>
    /\ resp.status = 200 /\ resp.body = <<>>

(***************************************************************************)
(* Properties of the scores.                                               *)
(***************************************************************************)
\* The valid values of a cohort, their count, their sum, and n^3 times their
\* variance.
ValidOf(series) == SelectSeq(series, LAMBDA x : ~x.nan)

CohortSum(series) ==
    SumSeq([i \in 1..Len(ValidOf(series)) |-> ValidOf(series)[i].v])

CohortSpread(series) ==
    LET n == Len(ValidOf(series))
    IN  SumSeq([i \in 1..n |->
                   (n * ValidOf(series)[i].v - CohortSum(series))
                       * (n * ValidOf(series)[i].v - CohortSum(series))])

\* C7: z_score = (value - mean) / std whenever std is not 0, also for a value
\* or a mean of 0, and z_score = 0 when std is 0: for zscore on the row's
\* (value, mean, std), and for zScore with the mean and std of the cohort.
C7_ZScoreIsDeviationOverStd ==
    /\ (/\ call.fn = "zscore" /\ call.done
        /\ \A k \in 1..3 : ~call.args[k].nan)
          => LET val == call.args[1].v
                 mean == call.args[2].v
                 std == call.args[3].v
             IN  /\ ~call.result.nan
                 /\ IF std # 0
                    THEN ZEq(call.result,
                             Z(Sign(val - mean), (val - mean) * (val - mean), std * std))
                    ELSE ZEq(call.result, ZZero)
    /\ (call.fn = "zScore" /\ call.done)
          => LET n == Len(ValidOf(call.args))
                 S == CohortSum(call.args)
                 Q == CohortSpread(call.args)
             IN  \A i \in 1..Len(call.args) :
                    ~call.args[i].nan
                       => LET z == call.result.z[i]
                              d == n * call.args[i].v - S
                          IN  /\ ~z.nan
                              /\ IF Q # 0
                                 THEN z.sgn = Sign(d) /\ z.num * Q = z.den * n * d * d
                                 ELSE ZEq(z, ZZero)

C9_ProbabilityMonotone ==
    (call.fn = "convert" /\ call.done /\ call.args.prev <= call.args.z)
        => \A k \in 1..3 : call.result.prevp[k] <= call.result.p[k]

\* C9 witness: a larger z-score was converted after a smaller one, and each
\* of the three conversions went up.
C9_Witness ==
    /\ call.fn = "convert" /\ call.done
    /\ call.args.prev < call.args.z
    /\ \A k \in 1..3 : call.result.prevp[k] < call.result.p[k]

\* C10: each conversion gives exactly 50 for the z-score 0.
C10_ZeroIsFifty ==
    (call.fn = "convert" /\ call.done /\ call.args.z = 0)
        => \A k \in 1..3 : call.result.p[k] = 50

\* C10 witness: the z-score 0 was converted, after a negative z-score that
\* zScoreToProbability had put below 50.
C10_Witness ==
    /\ call.fn = "convert" /\ call.done
    /\ call.args.z = 0 /\ call.args.prev < 0
    /\ call.result.p = <<50, 50, 50>>
    /\ call.result.prevp[1] < 50

(***************************************************************************)
(* Properties of the context merger.                                       *)
(***************************************************************************)
\* C11: a batter is in a game's bucket exactly when the batter's team is the
\* game's home or away team: in the home (away) file of the split exactly
\* when the team is a home (away) team of the schedule, and among the props
\* of a game card exactly when the team is one of the game's two sides.
C11_BucketIffTeamPlays ==
    /\ (/\ call.fn = "split_batters_by_team_location"
        /\ call.done /\ call.result.written)
          => \A b \in Range(call.args.batters_today.rows) :
                /\ b \in Range(call.result.batters_home.rows)
                      <=> \E g \in Range(call.args.games.rows) : b.team = g.home_team
                /\ b \in Range(call.result.batters_away.rows)
                      <=> \E g \in Range(call.args.games.rows) : b.team = g.away_team
    /\ resp.handler = "game-cards"
          => \A i \in 1..Len(batters), g \in 1..Len(Weather) :
                (\E p \in Range(GameCardsProps(batters)) :
                     p.name = batters[i].name /\ p.game = g)
                   <=> batters[i].team \in {Weather[g].away_team, Weather[g].home_team}

\* C12: the projected-props output of a run names no player twice for one
\* stat type.
C12_OneRowPerPlayerStat ==
    (call.fn = "main" /\ call.done)
        => NoRepeat([i \in 1..Len(call.result) |->
                        <<call.result[i].name, call.result[i].prop_type>>])

(***************************************************************************)
(* Properties of the name helpers.                                         *)
(***************************************************************************)
\* C13: a row naming a player 'First Last' is matched to the entry naming
\* the same player 'Last, First', and gets that entry's id.
C13_BothFormsMatch ==
    (call.fn = "nameToId" /\ call.done /\ call.args.row = call.args.entry)
        => call.result = "592450"

\* C13 as amended: the same, for a player whose last name is one word.
C13_BothFormsMatchOneWordLast ==
    (/\ call.fn = "nameToId" /\ call.done
     /\ call.args.row = call.args.entry
     /\ Len(call.args.entry.last) = 1)
        => call.result = "592450"

\* C13 witness: 'Aaron Judge' was looked up in a map built from
\* 'Judge, Aaron' and got its id.
C13_Witness ==
    /\ call.fn = "nameToId" /\ call.done
    /\ call.args.row = [first |-> <<"Aaron">>, last |-> <<"Judge">>]
    /\ call.args.entry = call.args.row
    /\ call.result = "592450"

\* C14: normalizing a normalized name returns it unchanged.
C14_NormalizeIdempotent ==
    (call.fn = "toLastFirstLower" /\ call.done)
        => toLastFirstLower(call.result) = call.result

\* C14 witness: a 'First Last' name was normalized to another string, which
\* normalizes to itself.
C14_Witness ==
    /\ call.fn = "toLastFirstLower" /\ call.done
    /\ ~call.args.comma /\ Len(call.args.pre) >= 2
    /\ call.result # call.args
    /\ call.result.comma
    /\ toLastFirstLower(call.result) = call.result

(***************************************************************************)
(* Properties of the roster builder and of the deduplicator.               *)
(***************************************************************************)
Identities(rows) == [i \in 1..Len(rows) |-> IdentityOf(rows[i])]

C16_DedupeIdempotent ==
    (call.fn = "deduplicate" /\ call.done)
        => Deduplicate(call.result) = call.result

\* C16 witness: the deduplicator dropped rows of its input, and returns its
\* output unchanged.
C16_Witness ==
    /\ call.fn = "deduplicate" /\ call.done
    /\ Len(call.result) < Len(call.args)
    /\ Len(call.result) >= 2
    /\ Deduplicate(call.result) = call.result

\* C17: the deduplicator's output holds no two rows of one (canonical_name,
\* team, role), and the row kept for a triple is its first row in the input.
C17_DedupeKeepsFirst ==
    (call.fn = "deduplicate" /\ call.done)
        => /\ NoRepeat(Identities(call.result))
           /\ \A r \in Range(call.result) :
                 \E i \in 1..Len(call.args) :
                    /\ call.args[i] = r
                    /\ \A j \in 1..(i - 1) : IdentityOf(call.args[j]) # IdentityOf(r)

\* C17 witness: two input rows of one triple differed in another column,
\* and the output holds the first of them and not the second.
C17_Witness ==
    /\ call.fn = "deduplicate" /\ call.done
    /\ \E i, j \in 1..Len(call.args) :
          /\ i < j
          /\ IdentityOf(call.args[i]) = IdentityOf(call.args[j])
          /\ call.args[i].ab # call.args[j].ab
          /\ call.args[i] \in Range(call.result)
          /\ call.args[j] \notin Range(call.result)

(***************************************************************************)
(* Properties of the stages' failures.                                     *)
(***************************************************************************)
\* The response of a handler to a history file.
HandlerResponse(handler, file, q) ==
    CASE handler = "best-props" -> BestPropsResponse(file)
      [] handler = "part_011" -> Part011Response(file)
      [] OTHER -> GameTopPropsResponse(file, q)

HistoryHandlers == {"best-props", "part_011", "game-top-props"}

\* C18: when the history file is absent the request fails with an error,
\* which is not the answer given for a file that exists and is empty.
C18_MissingFileIsError ==
    (/\ resp.handler \in HistoryHandlers
     /\ resp.handler = "game-top-props" => (resp.query.home # "" /\ resp.query.away # "")
     /\ ~hist.exists)
        => /\ resp.status >= 400
           /\ resp # HandlerResponse(resp.handler, EmptyFile, resp.query)

\* The columns a handler needs: the player-name and team columns, and
\* bet_type for the two sitewide handlers.
RequiredColumns(handler) ==
    IF handler = "game-top-props" THEN {"player_name", "team"}
    ELSE {"bet_type", "player_name", "team"}

\* C19: when the header of a file with data rows lacks a required column,
\* the request fails with an error.
C19_MissingColumnIsError ==
    (/\ resp.handler \in HistoryHandlers
     /\ resp.handler = "game-top-props" => (resp.query.home # "" /\ resp.query.away # "")
     /\ hist.exists /\ hist.rows # <<>>
     /\ ~(RequiredColumns(resp.handler) \subseteq hist.headers))
        => resp.status >= 400

\* C20: when the split's input files exist and the batters file has no data
\* row, the split completes and writes its two files, empty.
C20_EmptyInputEmptyOutput ==
    (/\ call.fn = "split_batters_by_team_location" /\ call.done
     /\ call.args.batters_today.kind # "missing"
     /\ call.args.games.kind # "missing"
     /\ call.args.batters_today.rows = <<>>)
        => /\ call.result.written
           /\ call.result.batters_home = CsvTable(<<>>)
           /\ call.result.batters_away = CsvTable(<<>>)

(***************************************************************************)
(* Properties of the game projection.                                      *)
(***************************************************************************)
\* A cell holds a number when it is not empty and is numeric text.
HoldsNumber(row, h) == h \in DOMAIN row /\ row[h] # "" /\ ~Number(row[h]).nan

\* The column of a row under one of the names, "" when the row has none.
ColumnOf(row, names) ==
    LET hs == {h \in DOMAIN row : LowerHeader(h) \in names}
    IN  IF hs = {} THEN "" ELSE CHOOSE h \in hs : TRUE

\* The row the handler matches to a query, 0 when it matches none.
MatchedRow(file, q) ==
    GameProjectionMatch(file, normTeam(q.home), normTeam(q.away),
                        li(file.headers, <<"home_team", "hometeam", "home">>),
                        li(file.headers, <<"away_team", "awayteam", "away", "visitor">>))

\* C30: the total reported for the matched row is the total cell when it
\* holds a number, else home + away rounded to 2 decimals when both score
\* cells hold numbers, else null.
C30_TotalFromCellsOrNull ==
    (/\ call.fn = "game-projection" /\ call.done
     /\ call.result.status = 200
     /\ call.args.file.rows # <<>>
     /\ MatchedRow(call.args.file, call.args.query) # 0)
        => LET row == call.args.file.rows[MatchedRow(call.args.file, call.args.query)]
               t == ColumnOf(row, {"total", "game_total"})
               h == ColumnOf(row, {"home_score", "home_runs"})
               a == ColumnOf(row, {"away_score", "away_runs"})
           IN  call.result.body.total =
                 IF HoldsNumber(row, t) THEN Json(ToFixed2K(Number(row[t]).v))
                 ELSE IF HoldsNumber(row, h) /\ HoldsNumber(row, a)
                      THEN Json(ToFixed2K(Number(row[h]).v + Number(row[a]).v))
                      ELSE Null

(***************************************************************************)
(* Properties of the page components.                                      *)
(***************************************************************************)
\* C25: autoProps and autoProj are only ever set while the card is mounted,
\* from the response to a request issued for the card's current pair.
C25_SetOnlyFromCurrentPair ==
    [][view.kind = "GameCard" =>
          /\ view'.autoProps # view.autoProps
                => view.mounted /\ view'.autoProps.deps = Deps(view.game)
          /\ view'.autoProj # view.autoProj
                => view.mounted /\ view'.autoProj.deps = Deps(view.game)]_vars

\* A response to a superseded request was discarded, and the current pair's
\* responses were stored.
C25_Witness ==
    /\ view.kind = "GameCard"
    /\ view.discarded # {}
    /\ view.autoProps.from # 0 /\ view.autoProps.deps = Deps(view.game)
    /\ view.autoProj.from # 0 /\ view.autoProj.deps = Deps(view.game)
    /\ view.autoProps.from \notin {1, 2}

\* C26: when the parent supplies a non-empty bestProps list, at mount or by
\* a later update, the card eventually renders its entries.
C26_GivenListIsRendered ==
    \A b \in {x \in BestPropsValues : x.list # <<>>} :
        (view.kind = "TopPropsCard" /\ view.bestProps = b)
            ~> (view.bestProps # b \/ TopPropsRendered(view) = UniqueByKey(b.list, {}, 3))

\* C27: once the data has loaded, the displayed list is the loaded cards
\* filtered by the selected team and type.
C27_DisplayedIsFiltered ==
    (view.kind = "GameCards" /\ view.fetch = "done")
        => view.filtered = handleFilter(view.cards, view.teamFilter, view.typeFilter)

\* C28: after Regenerate Props is pressed, the status eventually leaves
\* 'Refreshing...' for the success message or a failure message.
C28_RefreshingEnds ==
    (view.kind = "Refresh" /\ view.status = "Refreshing...")
        ~> (view.status \in {"Updated!", "Failed: error"})

\* C29: the generator script runs only after the page has been unlocked
\* with the password.
C29_RunOnlyWhenUnlocked ==
    (view.kind = "Refresh" /\ view.gated /\ run.starts > 0) => view.unlocked

AbortedIn(r) == {i \in DOMAIN r.log : r.log[i].outcome # "written"}

\* C21: a stage that has finished or failed has written all of its output
\* artifacts or none of them.
C21_AllOutputsOrNone ==
    run.kind = "pipeline"
        => \A i \in DOMAIN run.log :
              \/ \A a \in StageOutputs(run.log[i].stage) : run.disk[a] = "new"
              \/ \A a \in StageOutputs(run.log[i].stage) : run.disk[a] # "new"

\* C22: a stage that aborts changes no artifact, and after it no stage of
\* the run executes and no artifact changes.
C22_AbortHaltsAndKeeps ==
    [][run.kind = "pipeline" =>
          /\ (AbortedIn(run') # {} /\ AbortedIn(run) = {})
                => \A a \in Artifacts :
                      a \notin StageOutputs(run'.log[Len(run'.log)].stage)
                         => run'.disk[a] = run.disk[a]
          /\ AbortedIn(run) # {} => run' = run]_vars

\* C23: the stages execute in the fixed order, each once, and a stage starts
\* only after the preceding stage has written its whole output.
C23_FixedOrder ==
    run.kind = "pipeline"
        => \A i \in DOMAIN run.log :
              /\ run.log[i].stage = i
              /\ i > 1 => run.log[i - 1].outcome = "written"

====
